---- MODULE Spec2Model ----
(***************************************************************************)
(* Model of the Gmail push-notification pipeline of workspace-connect:     *)
(* the Pub/Sub notification handler (POST, processNewMessage), the webhook *)
(* fan-out (sendWebhooksForConnection, sendWebhook), the watch             *)
(* registration that also writes the sync cursor (startGmailAPIWatch), the *)
(* watch-refresh scan (refreshGmailAPIWatches, handleWatchRefresh) and its  *)
(* endpoints' Authorization check, the stopping of a watch, the            *)
(* notification endpoints of the SDK, the access-token refresh of          *)
(* createGmailAPIService, the signing and verification of webhook          *)
(* deliveries, the send route, the Pub/Sub pull poller                     *)
(* (pollForNotifications), the start-watch handler of the SDK, the         *)
(* creation of a connection, the IMAP watcher map, the parsed-email store  *)
(* (storeParsedEmail) and the RateLimiter.                                 *)
(*                                                                         *)
(* Every await of the handlers is a step boundary, so that concurrently    *)
(* running requests interleave exactly where the JavaScript runtime lets   *)
(* them.  Database failures are modelled in the send route, the poller,    *)
(* the creation of a connection and the parsed-email store; provider       *)
(* failures (history.list, messages.get, messages.send, users.watch, the   *)
(* token endpoint) and subscriber endpoint failures are modelled           *)
(* throughout.                                                             *)
(***************************************************************************)
EXTENDS Integers, Sequences, FiniteSets, TLC

(* ------------------------------ bounds -------------------------------- *)

\* Messages the provider mailbox receives during a run.
MaxMsgs == 2

\* Requests to the notification endpoint during a run.
MaxPasses == 2

Passes == 1..MaxPasses

\* The requests that run concurrently with each other under Spec; under
\* SeqSpec all MaxPasses requests run, one after another.
ConcurrentPasses == {1, 2}
Msgs == 1..MaxMsgs

\* Hours the clock advances during a run.
MaxNow == 2

\* Requests that use createGmailAPIService during a run, and the provider
\* calls one of them makes with the service it got.
MaxClients == 2

MaxCalls == 2

Clients == 1..MaxClients

\* Access tokens the provider issues during a run.
MaxIssued == 3

\* Messages the provider accepts for sending during a run.
MaxSends == 2

\* Connections created during a run.
MaxConnections == 3

\* IMAP watchers started during a run.
MaxWatchers == 3

\* Calls of storeParsedEmail during a run.
MaxStores == 3

\* Tasks handed to a RateLimiter during a run, and the largest
\* maxConcurrent it is constructed with.
MaxTasks == 4
MaxConcurrent == 2

Tasks == 1..MaxTasks

\* The passes whose calls of storeParsedEmail may overlap.
Storers == {1, 2}

\* The calls of startWatching and stopWatching that may overlap.
ImapCallers == {1, 2}

\* Notifications published to the pull subscription during a run, and calls
\* of pollForNotifications.
MaxNotes == 2

MaxPulls == 2

\* The invocations of pollForNotifications that may overlap.
Pollers == {1, 2}

(* ------------------------------ data ---------------------------------- *)

\* gmail_connection.gmail_history_id is a nullable text column; NoCursor is
\* the falsy value (null or "") of `connection.gmailHistoryId || historyId`.
NoCursor == -1

\* gmail_connection.gmail_watch_expiration is nullable; times are counted
\* in hours from the start of the run.
NoExpiration == -1

\* The connection the notifications are for.
ConnectionId == "c1"

\* The other rows of the gmail_connection table.
OtherConnectionIds == {"c2", "c3"}

ConnectionIds == {ConnectionId} \cup OtherConnectionIds

\* gmail_connection.email of each row.
email == [c1 |-> "c1@example.com", c2 |-> "c2@example.com",
          c3 |-> "c3@example.com"]

\* The addresses a notification names: the connection's and one that no row
\* has.
Addresses == {email[ConnectionId], "nobody@example.com"}

\* What the body of a request to an SDK notification endpoint holds: no
\* message.data, data without emailAddress or historyId, or both.
Envelopes == {"no_data", "bad_data", "ok"}

\* The SDK's notification endpoints: createGmailPubSubHandler (router),
\* handleGmailWebhook (Next.js handler) and the legacy route's POST.
Endpoints == {"createGmailPubSubHandler", "handleGmailWebhook", "legacyPOST"}

\* The watch-refresh endpoints: the cron route's GET, the router's
\* createWatchRefreshHandler and the Next.js handler's handleWatchRefresh.
RefreshEndpoints == {"GET", "createWatchRefreshHandler", "handleWatchRefresh"}

\* CRON_SECRET / cronSecret.
SharedSecret == "s3cret"

\* What `request.headers.get("authorization")` returns: null (NoHeader), the
\* expected header, and headers that differ from it in the secret, in the
\* scheme, in the scheme's case, or by one more character.
NoHeader == "null"

Authorizations ==
    { NoHeader, "Bearer s3cret", "Bearer wrong", "s3cret", "bearer s3cret",
      "Bearer s3cret1", "Basic s3cret", "" }

\* `24 * 60 * 60 * 1000` milliseconds, in hours.
RenewalThreshold == 24

\* users.watch registers a watch that expires after 7 days.
WatchLifetime == 168

\* An access token is valid for an hour from the refresh that issued it
\* (credentials.expiry_date).
TokenLifetime == 1

\* Rows of the webhook table.  The pipeline only reads this table.  The
\* route that creates a webhook stores the secret it is given or one it
\* generates, so every row has one.
webhook ==
    [ w1 |-> [gmailConnectionId |-> "c1", isActive |-> TRUE,
              events |-> {"email.received"}, secret |-> "k1"],
      w2 |-> [gmailConnectionId |-> "c1", isActive |-> TRUE,
              events |-> {"email.received", "email.sent"}, secret |-> "k2"],
      w3 |-> [gmailConnectionId |-> "c1", isActive |-> FALSE,
              events |-> {"email.received"}, secret |-> "k1"],
      w4 |-> [gmailConnectionId |-> "c1", isActive |-> TRUE,
              events |-> {"email.sent"}, secret |-> "k2"],
      w5 |-> [gmailConnectionId |-> "c2", isActive |-> TRUE,
              events |-> {"email.received"}, secret |-> "k1"] ]

\* The secrets of the webhook rows, and the keys they are used as (the
\* empty key stands in for a null secret).
Secrets == {"k1", "k2"}

EmptyKey == ""

\* The types of a WebhookPayload.
PayloadTypes == {"email.received", "email.sent"}

\* The values of the bytes that the request bodies of the model are made of.
Bytes == 0..MaxMsgs

\* The digits of a hex digest, and the length of the digests of the model
\* (two digits stand for the 64 of SHA-256).
HexDigits == 0..15

DigestLen == 2

WebhookIds == DOMAIN webhook

\* What a subscriber endpoint does with a POST: a 2xx response, a non-2xx
\* response, or a rejected fetch (network error, timeout).
Outcomes == {"ok", "http_error", "network_error"}

\* An event is identified by the pass that created it and the message it is
\* about (the code draws a fresh uuid for each payload it creates).
EventIds == Passes \X Msgs

VARIABLES
    mailboxHistoryId,  \* provider: the mailbox's current history id; message k
                       \* was added by history record k
    conn,              \* the gmail_connection row of ConnectionId
    emailLog,          \* the email_log table: a set of rows
    pass,              \* per notification request: its position and locals
    posts,             \* webhook POST attempts: <<webhook id, event>> -> count,
                       \* for the pairs that were attempted
    events,            \* webhook payloads (MessageEvents) created
    watch,             \* the startGmailAPIWatch call in progress, if any
    now,               \* the clock (Date.now()), in hours
    peers,             \* the gmail_connection rows of OtherConnectionIds
    scan,              \* the watch-refresh scan in progress, if any
    stop,              \* the stopping of a watch in progress, if any
    reply,             \* the response an SDK notification endpoint is
                       \* returning, if any
    trigger,           \* the request to a watch-refresh endpoint in progress,
                       \* if any, and its response
    registered,        \* provider: the watches registered on the connection's
                       \* mailbox, each with its expiration
    credentials,       \* the token columns of the connection's row
    client,            \* per user of createGmailAPIService: its position and
                       \* the service it holds
    issued,            \* provider: how many access tokens it has issued
    request,           \* the POST sendWebhook has sent last, if any
    verdict,           \* the subscriber's last verifyWebhookSignature call,
                       \* if any
    send,              \* the request to the send endpoint in progress, if any
    outbox,            \* provider: how many messages it has accepted for
                       \* sending
    subscription,      \* Pub/Sub: the notifications published and not
                       \* acknowledged, and how many were published and pulled
    poll,              \* per invocation of pollForNotifications: its position
                       \* and locals
    start,             \* the request to the SDK's start-watch endpoint in
                       \* progress, if any
    started,           \* per address: whether the provider holds a watch the
                       \* endpoint registered, and whether onWatchStarted has
                       \* completed for it
    created,           \* the gmail_connection rows the creation endpoint has
                       \* inserted, in the order of their insertion
    create,            \* the request to the creation endpoint in progress, if
                       \* any
    activeWatchers,    \* the entry of the connection in the activeWatchers
                       \* map: the watcher whose stop function it holds, if any
    watchers,          \* the IMAP watchers started so far: whether each is
                       \* still running
    imapCall,          \* per call of startWatching or stopWatching on the
                       \* connection: its position and the watcher it holds
    parsedEmails,      \* the parsed_emails table: a set of rows
    storing,           \* per pass that may call storeParsedEmail: the call in
                       \* progress, if any
    storeCalls,        \* how many calls of storeParsedEmail were made
    limiter,           \* the RateLimiter: its parameters, queue and running count
    tasks,             \* per task: not yet added, queued, running, or settled
    delayed            \* calls of process() waiting in the setTimeout of minDelayMs

vars == <<mailboxHistoryId, conn, emailLog, pass, posts, events, watch,
          now, peers, scan, stop, reply, trigger, registered, credentials,
          client, issued, request, verdict, send, outbox,
          subscription, poll, start, started, created, create,
          activeWatchers, watchers, imapCall, parsedEmails, storing,
          storeCalls, limiter, tasks, delayed>>

\* What the notification pipeline never writes.
lifecycle == <<now, peers, scan, stop, reply, trigger>>

\* The provider's side of the watch, which only users.watch and users.stop
\* change.
provider == <<registered>>

\* The access token and its users.
tokens == <<credentials, client, issued>>

\* The signed POST and its verification.
signing == <<request, verdict>>

\* The send endpoint and the provider's side of it.
sending == <<send, outbox>>

\* The Pub/Sub pull subscription and the invocations of the poller.
polling == <<subscription, poll>>

\* The SDK's start-watch endpoint.
starting == <<start, started>>

\* The connection-creation endpoint and the rows it has inserted.
creating == <<created, create>>

\* The IMAP watchers of one connection.
imap == <<activeWatchers, watchers, imapCall>>

\* The parsed-email store and the calls of storeParsedEmail.
parsing == <<parsedEmails, storing, storeCalls>>

\* A RateLimiter and the tasks handed to it.
limiting == <<limiter, tasks, delayed>>

\* The parts of the program that are followed on their own.
further == <<polling, starting, creating, imap, parsing, limiting>>

besidePolling == <<starting, creating, imap, parsing, limiting>>

besideStarting == <<polling, creating, imap, parsing, limiting>>

besideCreating == <<polling, starting, imap, parsing, limiting>>

besideImap == <<polling, starting, creating, parsing, limiting>>

besideParsing == <<polling, starting, creating, imap, limiting>>

besideLimiting == <<polling, starting, creating, imap, parsing>>

\* What neither the notification pipeline nor the watch lifecycle writes.
elsewhere == <<tokens, signing, sending, further>>

\* What the pipeline and the watch lifecycle work on.
base == <<mailboxHistoryId, conn, emailLog, pass, posts, events, watch, now,
          peers, scan, stop, reply, trigger, registered>>

\* What the watch lifecycle and the SDK endpoints never write.
pipeline == <<mailboxHistoryId, emailLog, pass, posts, events>>

(* -------------------------- provider client --------------------------- *)

\* gmail.users.history.list: the records after startHistoryId, oldest first,
\* each adding one message, and the mailbox's current history id.
getHistory(startHistoryId) ==
    [ history |-> [i \in 1..(IF mailboxHistoryId > startHistoryId
                              THEN mailboxHistoryId - startHistoryId
                              ELSE 0) |-> startHistoryId + i],
      historyId |-> mailboxHistoryId ]

(* ------------------------------ email log ----------------------------- *)

\* Mutant: the duplicate check is missing.
ExistingRowsNoCheck(connectionId, messageId) == {}

\* The duplicate check of processNewMessage: rows of this connection with
\* this message id.
ExistingRows(connectionId, messageId) ==
    {r \in emailLog : r.gmailConnectionId = connectionId
                      /\ r.messageId = messageId}

\* The row processNewMessage inserts; its id stands for crypto.randomUUID().
NewLogRow(p, connectionId, messageId) ==
    [ id |-> <<p, messageId>>, gmailConnectionId |-> connectionId,
      messageId |-> messageId, direction |-> "inbound",
      status |-> "received" ]

(* ------------------------------ fan-out ------------------------------- *)

\* sendWebhooksForConnection's select: every webhook row of the connection.
WebhooksForConnection(connectionId) ==
    {w \in WebhookIds : webhook[w].gmailConnectionId = connectionId}

\* Mutant: sendWebhook does not look at isActive.
ShouldSendIgnoresActive(w, type) == type \in webhook[w].events

\* sendWebhook's two early returns: the webhook must be active and
\* subscribed to the payload's type.
ShouldSend(w, type) ==
    webhook[w].isActive /\ type \in webhook[w].events

\* The POSTs one sendWebhooksForConnection call starts.
FanoutTargets(connectionId, type) ==
    {w \in WebhooksForConnection(connectionId) : ShouldSend(w, type)}

\* Mutant: a failed delivery rejects the whole Promise.all, so the call
\* returns without the sibling deliveries.
AfterPostAbortsOnFailure(pending, w, m, outcome) ==
    IF outcome = "ok" THEN pending \ {<<w, m>>} ELSE {}

\* What remains in flight after the POST to w has settled with `outcome`.
\* sendWebhook catches a rejected fetch and only logs a non-2xx response, so
\* a failure never touches the sibling deliveries.
AfterPost(pending, w, m, outcome) == pending \ {<<w, m>>}

\* Mutant: the deliveries are started and not awaited.
FanoutNotAwaited(pending) == TRUE

\* `await Promise.all(...)`: the call returns when no POST is in flight.
FanoutSettled(pending) == pending = {}

(* --------------------------- the pass's loop -------------------------- *)

\* Mutant: the loop is left after the first reference.
NextPcStopsAfterFirst(refs, handled) ==
    IF handled = <<>> /\ refs # <<>> THEN "getMessage" ELSE "update"

\* `for (const item of history.history) ... await processNewMessage(...)`:
\* where the pass goes once `handled` references are behind it.
NextPc(refs, handled) ==
    IF Len(handled) < Len(refs) THEN "getMessage" ELSE "update"

\* Mutant: an existing row ends the loop, not only the call.
PcAfterSkipEndsLoop(refs, handled) == "update"

\* processNewMessage's `return` on an existing row ends that call only.
PcAfterSkip(refs, handled) == NextPc(refs, handled)

\* Mutant: a failed fetch is rethrown to POST's catch.
PcAfterFetchFailureAbortsPass(refs, handled) == "failed"

\* processNewMessage's catch logs a failed getMessage and returns normally,
\* so the loop goes on with the next reference.
PcAfterFetchFailure(refs, handled) == NextPc(refs, handled)

\* Mutant: the pass writes back the cursor it started from.
NewCursorIsStart(p) == pass[p].startHistoryId

\* The cursor the pass writes: the history response's historyId.
NewCursor(p) == pass[p].historyId

\* Mutant: the notification's historyId is used even when a cursor is stored.
StartHistoryIdPrefersHint(stored, hint) == hint

\* `connection.gmailHistoryId || historyId`.
StartHistoryId(stored, hint) == IF stored # NoCursor THEN stored ELSE hint

CurrentMsg(p) == pass[p].refs[Len(pass[p].handled) + 1]

\* A request's locals.  `hint` is the historyId the notification carries
\* and `invalidCursor` whether history.list rejected the request's cursor;
\* both are recorded where the requests are followed one by one
\* (HandlerSpec).  `fetched` holds the ids the request has called
\* service.getMessage for.
IdlePass ==
    [ pc |-> "idle", startHistoryId |-> NoCursor, refs |-> <<>>,
      historyId |-> NoCursor, handled |-> <<>>, pending |-> {},
      failed |-> {}, hint |-> NoCursor, invalidCursor |-> FALSE,
      fetched |-> {} ]

\* How many POSTs of event e webhook w's endpoint has been sent.
PostCount(w, e) == IF <<w, e>> \in DOMAIN posts THEN posts[<<w, e>>] ELSE 0

(* --------------------- the provider's watches ------------------------- *)

\* The watches a mailbox has whose row holds `expiration`, with every
\* earlier users.watch and users.stop call recorded.
Registered(expiration) ==
    IF expiration = NoExpiration THEN {} ELSE {[expiration |-> expiration]}

\* The watches of the mailbox that have not expired.
Outstanding == {w \in registered : w.expiration > now}

\* Mutant: a second users.watch call registers a second watch.
AfterUsersWatchAddsWatch(watches, expiration) ==
    watches \cup {[expiration |-> expiration]}

\* The provider after users.watch: the call is made for `userId: "me"` with
\* the one topic of the deployment, so it replaces the mailbox's watch.
AfterUsersWatch(watches, expiration) == {[expiration |-> expiration]}

\* The provider after users.stop: the mailbox has no watch.
AfterUsersStop(watches) == {}

(* ------------------------------- Init --------------------------------- *)

\* A gmail_connection row as the connect route inserts it: active, never
\* synced, never watched.
NewConnection ==
    [ gmailHistoryId |-> NoCursor, gmailWatchExpiration |-> NoExpiration,
      isActive |-> TRUE ]

IdleWatch == [pc |-> "idle", historyId |-> NoCursor, expiration |-> NoExpiration]

IdleScan ==
    [ pc |-> "idle", kind |-> "none", connections |-> <<>>, done |-> 0,
      result |-> [historyId |-> NoCursor, expiration |-> NoExpiration],
      results |-> <<>> ]

IdleStop == [pc |-> "idle", kind |-> "none", id |-> "none", notified |-> FALSE]

NoTrigger ==
    [ pc |-> "idle", endpoint |-> "none", authorization |-> NoHeader,
      status |-> 0, body |-> "none" ]

NoReply ==
    [ endpoint |-> "none", envelope |-> "none", called |-> FALSE,
      status |-> 0, body |-> "none" ]

\* No mail, no request, no watch: the pipeline before its first notification.
PipelineInit ==
    /\ mailboxHistoryId = 0
    /\ emailLog = {}
    /\ pass = [p \in Passes |-> IdlePass]
    /\ posts = <<>>
    /\ events = {}
    /\ watch = IdleWatch

\* No scan, no stop, no SDK request in progress; the clock at 0.
LifecycleInit ==
    /\ now = 0
    /\ scan = IdleScan
    /\ stop = IdleStop
    /\ reply = NoReply
    /\ trigger = NoTrigger

\* The token columns as the connect route fills them from the user's Google
\* account: the account's access token (token 0) and its expiry.
NewCredentials == [gmailAccessToken |-> 0, gmailTokenExpiry |-> TokenLifetime]

\* A user of createGmailAPIService that has not called it.
IdleClient ==
    [ pc |-> "idle", accessToken |-> 0, expiryDate |-> NoExpiration,
      persisted |-> FALSE, calls |-> 0 ]

\* Nothing was published.
EmptySubscription == [unacked |-> {}, published |-> 0, pulls |-> 0]

\* An invocation's locals: the pulled messages, the index of the one it is
\* at, and that message's pass.
IdlePoll ==
    [ pc |-> "idle", batch |-> <<>>, at |-> 0, startHistoryId |-> NoCursor,
      refs |-> <<>>, historyId |-> NoCursor, handled |-> 0,
      persisted |-> FALSE ]

\* The addresses a start-watch request names; a body may have none.
StartAddresses == {"a@example.com", "b@example.com", "c@example.com"}

NoEmail == "undefined"

NoStart ==
    [ pc |-> "idle", email |-> NoEmail, calls |-> <<>>, status |-> 0,
      body |-> "none" ]

\* What a creation request finds in the account table for its user_id: no
\* Google account, one without tokens, or one with both tokens.
GoogleAccounts == {"none", "no_tokens", "ok"}

\* The mailbox addresses creation requests name.
MailboxAddresses == {"a@example.com", "b@example.com"}

NoCreate ==
    [ pc |-> "idle", id |-> 0, status |-> 0, body |-> "none",
      watchFailed |-> FALSE ]

\* `activeWatchers.get(connection.id)` of a connection without an entry.
NoWatcher == 0

IdleImapCall == [pc |-> "idle", stopWatcher |-> NoWatcher]

\* `const [existing]` of a select that found no row.
NoRow == 0

IdleStore ==
    [pc |-> "idle", call |-> 0, messageId |-> 0, existing |-> NoRow]

\* Before `new RateLimiter(...)`.
NoLimiter ==
    [made |-> FALSE, maxConcurrent |-> 0, minDelayMs |-> 0,
     queue |-> <<>>, running |-> 0]

\* connection_id of a send request that names no row.
MissingConnectionId == "c0"

NoSend ==
    [ pc |-> "idle", connection_id |-> "none", called |-> FALSE,
      status |-> 0, body |-> "none", id |-> 0 ]

NoRequest ==
    [ to |-> "none", body |-> <<>>, signature |-> <<>>, webhookId |-> "none" ]

NoVerdict ==
    [ payload |-> <<>>, signature |-> <<>>, secret |-> "none",
      result |-> "none" ]

\* No request is using the token; no POST has been sent.
ElsewhereInit ==
    /\ credentials = NewCredentials
    /\ client = [r \in Clients |-> IdleClient]
    /\ issued = 0
    /\ request = NoRequest
    /\ verdict = NoVerdict
    /\ send = NoSend
    /\ outbox = 0
    /\ subscription = EmptySubscription
    /\ poll = [r \in Pollers |-> IdlePoll]
    /\ start = NoStart
    /\ started = [a \in StartAddresses |-> [watched |-> FALSE, notified |-> FALSE]]
    /\ created = <<>>
    /\ create = NoCreate
    /\ activeWatchers = NoWatcher
    /\ watchers = <<>>
    /\ imapCall = [k \in ImapCallers |-> IdleImapCall]
    /\ parsedEmails = {}
    /\ storing = [k \in Storers |-> IdleStore]
    /\ storeCalls = 0
    /\ limiter = NoLimiter
    /\ tasks = [t \in Tasks |-> "new"]
    /\ delayed = 0

\* The provider holds the watch the connection's row records.
ProviderInit == registered = Registered(conn.gmailWatchExpiration)

Init ==
    /\ PipelineInit
    /\ LifecycleInit
    /\ conn = NewConnection
    /\ peers = [c \in OtherConnectionIds |-> NewConnection]
    /\ ProviderInit
    /\ ElsewhereInit

(* ----------------------------- environment ---------------------------- *)

\* A message arrives in the mailbox: the provider appends a history record.
Arrive ==
    /\ mailboxHistoryId < MaxMsgs
    /\ mailboxHistoryId' = mailboxHistoryId + 1
    /\ UNCHANGED <<conn, emailLog, pass, posts, events, watch>>
    /\ UNCHANGED lifecycle
    /\ UNCHANGED elsewhere
    /\ UNCHANGED provider

(* ------------------------- notification handler ----------------------- *)

\* POST, up to the connection lookup: the notification carries the history
\* id the mailbox had when some notification was published.
Begin(p, hint) ==
    /\ pass[p].pc = "idle"
    /\ \A q \in Passes : q < p => pass[q].pc # "idle"
    /\ pass' = [pass EXCEPT ![p].pc = "getHistory",
                            ![p].startHistoryId =
                                StartHistoryId(conn.gmailHistoryId, hint)]
    /\ UNCHANGED <<mailboxHistoryId, conn, emailLog, posts, events, watch>>
    /\ UNCHANGED lifecycle
    /\ UNCHANGED elsewhere
    /\ UNCHANGED provider

\* A request arrives while another may still be running.
ConcurrentBegin(p, hint) ==
    /\ p \in ConcurrentPasses
    /\ Begin(p, hint)

\* A request arrives when every earlier one has been answered.
NoneRunning == \A q \in Passes : pass[q].pc \in {"idle", "done", "failed"}

SequentialBegin(p, hint) ==
    /\ NoneRunning
    /\ Begin(p, hint)

\* `await service.getHistory(startHistoryId)` returns.
GetHistoryOk(p) ==
    /\ pass[p].pc = "getHistory"
    /\ LET h == getHistory(pass[p].startHistoryId) IN
       pass' = [pass EXCEPT ![p].refs = h.history,
                            ![p].historyId = h.historyId,
                            ![p].pc = NextPc(h.history, <<>>)]
    /\ UNCHANGED <<mailboxHistoryId, conn, emailLog, posts, events, watch>>
    /\ UNCHANGED lifecycle
    /\ UNCHANGED elsewhere
    /\ UNCHANGED provider

\* createGmailAPIService or getHistory throws: POST's catch answers 500,
\* nothing else is done.
GetHistoryFail(p) ==
    /\ pass[p].pc = "getHistory"
    /\ pass' = [pass EXCEPT ![p] = [IdlePass EXCEPT !.pc = "failed"]]
    /\ UNCHANGED <<mailboxHistoryId, conn, emailLog, posts, events, watch>>
    /\ UNCHANGED lifecycle
    /\ UNCHANGED elsewhere
    /\ UNCHANGED provider

\* The ids fetched once processNewMessage has called service.getMessage
\* for the current reference, its first statement.
AfterGetMessage(p) == pass[p].fetched \cup {CurrentMsg(p)}

\* processNewMessage up to the duplicate check.  getMessage reads only the
\* message, which never changes, so its await is folded into the check that
\* follows it: the call throws (the catch logs it and the loop goes on), or
\* the select finds a row and the call returns, or the message is new.
GetMessageFail(p) ==
    /\ pass[p].pc = "getMessage"
    /\ LET handled == Append(pass[p].handled, "fetch_failed") IN
       pass' = [pass EXCEPT ![p].handled = handled,
                            ![p].fetched = AfterGetMessage(p),
                            ![p].pc = PcAfterFetchFailure(pass[p].refs, handled)]
    /\ UNCHANGED <<mailboxHistoryId, conn, emailLog, posts, events, watch>>
    /\ UNCHANGED lifecycle
    /\ UNCHANGED elsewhere
    /\ UNCHANGED provider

CheckExisting(p) ==
    /\ pass[p].pc = "getMessage"
    /\ IF ExistingRows(ConnectionId, CurrentMsg(p)) # {}
       THEN LET handled == Append(pass[p].handled, "skipped") IN
            pass' = [pass EXCEPT ![p].handled = handled,
                                 ![p].fetched = AfterGetMessage(p),
                                 ![p].pc = PcAfterSkip(pass[p].refs, handled)]
       ELSE pass' = [pass EXCEPT ![p].fetched = AfterGetMessage(p),
                                 ![p].pc = "insert"]
    /\ UNCHANGED <<mailboxHistoryId, conn, emailLog, posts, events, watch>>
    /\ UNCHANGED lifecycle
    /\ UNCHANGED elsewhere
    /\ UNCHANGED provider

\* `await db.insert(emailLog)`, then the payload is created and
\* sendWebhooksForConnection starts one sendWebhook per webhook row of the
\* connection; those that pass sendWebhook's checks POST.  The webhook table
\* is only read, so its selects are folded into this step.
InsertAndSend(p) ==
    /\ pass[p].pc = "insert"
    /\ emailLog' = emailLog \cup {NewLogRow(p, ConnectionId, CurrentMsg(p))}
    /\ events' = events \cup {<<p, CurrentMsg(p)>>}
    /\ pass' = [pass EXCEPT
                  ![p].pending = pass[p].pending \cup
                      {<<w, CurrentMsg(p)>> :
                          w \in FanoutTargets(ConnectionId, "email.received")},
                  ![p].pc = "fanout"]
    /\ UNCHANGED <<mailboxHistoryId, conn, posts, watch>>
    /\ UNCHANGED lifecycle
    /\ UNCHANGED elsewhere
    /\ UNCHANGED provider

\* One fetch of sendWebhook settles: the endpoint answers 2xx, answers
\* non-2xx, or the fetch rejects.  `failed` is what sendWebhook's
\* console.error calls report while the fan-out is in progress.
Post(p, w, m, outcome) ==
    /\ <<w, m>> \in pass[p].pending
    /\ posts' = [k \in DOMAIN posts \cup {<<w, <<p, m>>>>} |->
                    IF k = <<w, <<p, m>>>> THEN PostCount(w, <<p, m>>) + 1
                    ELSE posts[k]]
    /\ pass' = [pass EXCEPT
                  ![p].pending = AfterPost(pass[p].pending, w, m, outcome),
                  ![p].failed = IF outcome = "ok" THEN @ ELSE @ \cup {w}]
    /\ UNCHANGED <<mailboxHistoryId, conn, emailLog, events, watch>>
    /\ UNCHANGED lifecycle
    /\ UNCHANGED elsewhere
    /\ UNCHANGED provider

\* Promise.all resolves; storeParsedEmail; processNewMessage returns.
FanoutDone(p) ==
    /\ pass[p].pc = "fanout"
    /\ FanoutSettled(pass[p].pending)
    /\ LET handled == Append(pass[p].handled, "logged") IN
       pass' = [pass EXCEPT ![p].handled = handled,
                            ![p].failed = {},
                            ![p].pc = NextPc(pass[p].refs, handled)]
    /\ UNCHANGED <<mailboxHistoryId, conn, emailLog, posts, events, watch>>
    /\ UNCHANGED lifecycle
    /\ UNCHANGED elsewhere
    /\ UNCHANGED provider

\* "Update the history ID".
UpdateHistoryId(p) ==
    /\ pass[p].pc = "update"
    /\ conn' = [conn EXCEPT !.gmailHistoryId = NewCursor(p)]
    /\ pass' = [pass EXCEPT ![p].pc = "done"]
    /\ UNCHANGED <<mailboxHistoryId, emailLog, posts, events, watch>>
    /\ UNCHANGED lifecycle
    /\ UNCHANGED elsewhere
    /\ UNCHANGED provider

(* ------------------- direct Gmail message format --------------------- *)

\* POST with a body that has id and payload: handleDirectGmailMessage parses
\* it and finds the connection by the To header.  m is the body's id.
DirectBegin(p, m) ==
    /\ NoneRunning
    /\ pass[p].pc = "idle"
    /\ \A q \in Passes : q < p => pass[q].pc # "idle"
    /\ pass' = [pass EXCEPT ![p].pc = "directCheck", ![p].refs = <<m>>]
    /\ UNCHANGED <<mailboxHistoryId, conn, emailLog, posts, events, watch>>
    /\ UNCHANGED lifecycle
    /\ UNCHANGED elsewhere
    /\ UNCHANGED provider

\* handleDirectGmailMessage's duplicate check; an existing row answers
\* {success: true, duplicate: true}.
DirectCheck(p) ==
    /\ pass[p].pc = "directCheck"
    /\ IF ExistingRows(ConnectionId, CurrentMsg(p)) # {}
       THEN pass' = [pass EXCEPT ![p].handled = Append(@, "skipped"),
                                 ![p].pc = "done"]
       ELSE pass' = [pass EXCEPT ![p].pc = "directInsert"]
    /\ UNCHANGED <<mailboxHistoryId, conn, emailLog, posts, events, watch>>
    /\ UNCHANGED lifecycle
    /\ UNCHANGED elsewhere
    /\ UNCHANGED provider

\* processDirectMessage: the insert, the payload, sendWebhooksForConnection.
DirectInsertAndSend(p) ==
    /\ pass[p].pc = "directInsert"
    /\ emailLog' = emailLog \cup {NewLogRow(p, ConnectionId, CurrentMsg(p))}
    /\ events' = events \cup {<<p, CurrentMsg(p)>>}
    /\ pass' = [pass EXCEPT
                  ![p].pending = pass[p].pending \cup
                      {<<w, CurrentMsg(p)>> :
                          w \in FanoutTargets(ConnectionId, "email.received")},
                  ![p].pc = "directFanout"]
    /\ UNCHANGED <<mailboxHistoryId, conn, posts, watch>>
    /\ UNCHANGED lifecycle
    /\ UNCHANGED elsewhere
    /\ UNCHANGED provider

\* Promise.all resolves; storeParsedEmail; the request is answered.  The
\* direct format never writes the cursor.
DirectFanoutDone(p) ==
    /\ pass[p].pc = "directFanout"
    /\ FanoutSettled(pass[p].pending)
    /\ pass' = [pass EXCEPT ![p].handled = Append(@, "logged"),
                            ![p].failed = {},
                            ![p].pc = "done"]
    /\ UNCHANGED <<mailboxHistoryId, conn, emailLog, posts, events, watch>>
    /\ UNCHANGED lifecycle
    /\ UNCHANGED elsewhere
    /\ UNCHANGED provider

(* ------------------------------ the watch ----------------------------- *)

\* gmail.users.watch: the mailbox's current history id and the expiration
\* of the watch it registered.
setupPushNotifications(historyId) ==
    [historyId |-> historyId, expiration |-> now + WatchLifetime]

\* Mutant: the update keeps the stored cursor.
WatchUpdateKeepsCursor(row, result) ==
    [row EXCEPT !.gmailWatchExpiration = result.expiration]

\* startGmailAPIWatch's update of the connection row.
WatchUpdate(row, result) ==
    [row EXCEPT !.gmailHistoryId = result.historyId,
                !.gmailWatchExpiration = result.expiration]

\* startWatching (which refuses an inactive connection), then
\* startGmailAPIWatch: `await service.setupPushNotifications(...)` returns.
WatchCall ==
    /\ watch.pc = "idle"
    /\ conn.isActive
    /\ LET result == setupPushNotifications(mailboxHistoryId) IN
       /\ watch' = [pc |-> "write", historyId |-> result.historyId,
                    expiration |-> result.expiration]
       /\ registered' = AfterUsersWatch(registered, result.expiration)
    /\ UNCHANGED <<mailboxHistoryId, conn, emailLog, pass, posts, events>>
    /\ UNCHANGED lifecycle
    /\ UNCHANGED elsewhere

\* startGmailAPIWatch: the update of the connection row.
WatchWrite ==
    /\ watch.pc = "write"
    /\ conn' = WatchUpdate(conn, watch)
    /\ watch' = IdleWatch
    /\ UNCHANGED <<mailboxHistoryId, emailLog, pass, posts, events>>
    /\ UNCHANGED lifecycle
    /\ UNCHANGED elsewhere
    /\ UNCHANGED provider

(* ------------------------ the connection table ----------------------- *)

\* The gmail_connection row of c.
Row(c) == IF c = ConnectionId THEN conn ELSE peers[c]

\* The order in which a select without ORDER BY returns the rows.
TableOrder == <<"c1", "c2", "c3">>

\* The current history ids of the other mailboxes, which receive no mail
\* during a run.
peerHistoryId == [c2 |-> 1, c3 |-> 2]

\* The history id users.watch returns for connection c's mailbox.
HistoryIdOf(c) == IF c = ConnectionId THEN mailboxHistoryId ELSE peerHistoryId[c]

\* `update(gmailConnection).set(...).where(eq(gmailConnection.id, c))`.
UpdateRow(c, row) ==
    IF c = ConnectionId
    THEN conn' = row /\ UNCHANGED peers
    ELSE peers' = [peers EXCEPT ![c] = row] /\ UNCHANGED conn

\* Time passes.
Tick ==
    /\ now < MaxNow
    /\ now' = now + 1
    /\ UNCHANGED <<conn, watch, peers, scan, stop, reply, trigger, registered>>
    /\ UNCHANGED pipeline
    /\ UNCHANGED elsewhere

(* ------------------------ the watch-refresh scan ---------------------- *)

\* refreshGmailAPIWatches' select: the active rows, as they are now.
ActiveConnections ==
    LET ids == SelectSeq(TableOrder, LAMBDA c : Row(c).isActive) IN
    [i \in 1..Len(ids) |->
        [id |-> ids[i],
         gmailWatchExpiration |-> Row(ids[i]).gmailWatchExpiration]]

\* Mutant: a watch that expires in exactly 24 hours is renewed too.
DueAtThreshold(expiration) ==
    expiration # NoExpiration /\ expiration - now <= RenewalThreshold

\* `connection.gmailWatchExpiration &&
\*  new Date(connection.gmailWatchExpiration).getTime() - Date.now() < 24h`.
Due(expiration) ==
    expiration # NoExpiration /\ expiration - now < RenewalThreshold

\* The connection the scan's loop is at.
ScanCurrent == scan.connections[scan.done + 1]

\* Whether the scan renews the watch of the connection it is at:
\* refreshGmailAPIWatches if it is due, handleWatchRefresh always (its list
\* comes from getExpiringWatches).
ShouldRenew ==
    scan.kind = "sdk" \/ Due(ScanCurrent.gmailWatchExpiration)

\* Mutant: a failed renewal is rethrown and ends the scan.
PcAfterRenewalFailureEndsScan == "done"

\* The catch inside the loop logs the failure; the loop goes on.
PcAfterRenewalFailure == "loop"

\* Mutant: a failed renewal clears the row's watch expiration.
RowAfterRenewalFailureCleared(row) ==
    [row EXCEPT !.gmailWatchExpiration = NoExpiration]

\* startGmailAPIWatch's catch logs and rethrows, the loop's catch logs: the
\* row's update is not reached and the row stays as it is.
RowAfterRenewalFailure(row) == row

\* The rows the scan's select returned.
Selected == {scan.connections[i] : i \in 1..Len(scan.connections)}

\* The positions in the scan's results of the renewals that failed.
FailedRenewals ==
    {i \in 1..Len(scan.results) : ~scan.results[i].success}

\* `results.filter(r => r.success).length`.
RefreshedCount(results) ==
    Cardinality({i \in 1..Len(results) : results[i].success})

\* `results.filter(r => !r.success).length`.
FailedCount(results) ==
    Cardinality({i \in 1..Len(results) : ~results[i].success})

\* refreshGmailAPIWatches is called (by the cron route): the select.
ScanBegin ==
    /\ scan.pc \in {"idle", "done"}
    /\ scan' = [IdleScan EXCEPT !.pc = "loop", !.kind = "cron",
                                !.connections = ActiveConnections]
    /\ UNCHANGED <<conn, watch, now, peers, stop, reply, trigger, registered>>
    /\ UNCHANGED pipeline
    /\ UNCHANGED elsewhere

\* handleWatchRefresh is called: getExpiringWatches, which the SDK's user
\* implements, returns the connections in `listed`.
SdkScanBegin(listed) ==
    /\ scan.pc \in {"idle", "done"}
    /\ LET ids == SelectSeq(TableOrder, LAMBDA c : c \in listed) IN
       scan' = [IdleScan EXCEPT
                  !.pc = "loop", !.kind = "sdk",
                  !.connections =
                      [i \in 1..Len(ids) |->
                          [id |-> ids[i],
                           gmailWatchExpiration |-> NoExpiration]]]
    /\ UNCHANGED <<conn, watch, now, peers, stop, reply, trigger, registered>>
    /\ UNCHANGED pipeline
    /\ UNCHANGED elsewhere

\* The loop passes a connection whose watch is not due.
ScanSkip ==
    /\ scan.pc = "loop"
    /\ scan.done < Len(scan.connections)
    /\ ~ShouldRenew
    /\ scan' = [scan EXCEPT !.done = @ + 1]
    /\ UNCHANGED <<conn, watch, now, peers, stop, reply, trigger, registered>>
    /\ UNCHANGED pipeline
    /\ UNCHANGED elsewhere

\* The renewal's users.watch call (setupPushNotifications, refreshWatch)
\* returns.
ScanCallOk ==
    /\ scan.pc = "loop"
    /\ scan.done < Len(scan.connections)
    /\ ShouldRenew
    /\ LET result == setupPushNotifications(HistoryIdOf(ScanCurrent.id)) IN
       /\ scan' = [scan EXCEPT
                     !.pc = "write",
                     !.result = [historyId |-> result.historyId,
                                 expiration |-> result.expiration]]
       /\ registered' = IF ScanCurrent.id = ConnectionId
                         THEN AfterUsersWatch(registered, result.expiration)
                         ELSE registered
    /\ UNCHANGED <<conn, watch, now, peers, stop, reply, trigger>>
    /\ UNCHANGED pipeline
    /\ UNCHANGED elsewhere

\* The renewal throws (credentials, users.watch): the loop's catch.
ScanCallFail ==
    /\ scan.pc = "loop"
    /\ scan.done < Len(scan.connections)
    /\ ShouldRenew
    /\ scan' = [scan EXCEPT
                  !.results = Append(@, [id |-> ScanCurrent.id,
                                         success |-> FALSE]),
                  !.done = @ + 1,
                  !.pc = PcAfterRenewalFailure]
    /\ UpdateRow(ScanCurrent.id, RowAfterRenewalFailure(Row(ScanCurrent.id)))
    /\ UNCHANGED <<watch, now, stop, reply, trigger, registered>>
    /\ UNCHANGED pipeline
    /\ UNCHANGED elsewhere

\* The renewal is recorded: startGmailAPIWatch updates the connection row;
\* handleWatchRefresh hands the new expiration to onWatchRefreshed and
\* writes no row itself.
ScanWrite ==
    /\ scan.pc = "write"
    /\ IF scan.kind = "cron"
       THEN UpdateRow(ScanCurrent.id,
                      WatchUpdate(Row(ScanCurrent.id), scan.result))
       ELSE UNCHANGED <<conn, peers>>
    /\ scan' = [scan EXCEPT
                  !.results = Append(@, [id |-> ScanCurrent.id,
                                         success |-> TRUE]),
                  !.done = @ + 1,
                  !.pc = "loop"]
    /\ UNCHANGED <<watch, now, stop, reply, trigger, registered>>
    /\ UNCHANGED pipeline
    /\ UNCHANGED elsewhere

\* handleWatchRefresh: onWatchRefreshed throws, inside the loop's try.
ScanCallbackFail ==
    /\ scan.pc = "write"
    /\ scan.kind = "sdk"
    /\ scan' = [scan EXCEPT
                  !.results = Append(@, [id |-> ScanCurrent.id,
                                         success |-> FALSE]),
                  !.done = @ + 1,
                  !.pc = PcAfterRenewalFailure]
    /\ UNCHANGED <<conn, watch, now, peers, stop, reply, trigger, registered>>
    /\ UNCHANGED pipeline
    /\ UNCHANGED elsewhere

\* The loop is over: refreshGmailAPIWatches returns; handleWatchRefresh
\* answers {success, refreshed, failed, results}.
ScanEnd ==
    /\ scan.pc = "loop"
    /\ scan.done = Len(scan.connections)
    /\ scan' = [scan EXCEPT !.pc = "done"]
    /\ UNCHANGED <<conn, watch, now, peers, stop, reply, trigger, registered>>
    /\ UNCHANGED pipeline
    /\ UNCHANGED elsewhere

(* ----------------------- the watch-refresh endpoints ------------------ *)

\* Mutant: any header of the Bearer scheme is accepted.
AuthorizedAnyBearer(authorization, secret) ==
    authorization \in {"Bearer s3cret", "Bearer wrong", "Bearer s3cret1"}

\* The negation of `authHeader !== \`Bearer ${secret}\``.
Authorized(authorization, secret) == authorization = "Bearer " \o secret

\* The 401 of an endpoint: new Response("Unauthorized") in the cron route
\* and in createWatchRefreshHandler, {error: "Unauthorized"} in
\* handleWatchRefresh.
Unauthorized(endpoint) ==
    [ status |-> 401,
      body |-> IF endpoint = "handleWatchRefresh" THEN "error" ELSE "text" ]

\* A request to a watch-refresh endpoint, up to the check of its
\* Authorization header: a mismatch is answered 401 at once; otherwise the
\* endpoint goes on to call the scan.
RefreshRequest(endpoint, authorization) ==
    /\ trigger.pc = "idle"
    /\ trigger' =
          IF Authorized(authorization, SharedSecret)
          THEN [ pc |-> "call", endpoint |-> endpoint,
                 authorization |-> authorization, status |-> 0,
                 body |-> "none" ]
          ELSE [ pc |-> "answered", endpoint |-> endpoint,
                 authorization |-> authorization,
                 status |-> Unauthorized(endpoint).status,
                 body |-> Unauthorized(endpoint).body ]
    /\ UNCHANGED <<conn, watch, now, peers, scan, stop, reply, registered>>
    /\ UNCHANGED pipeline
    /\ UNCHANGED elsewhere

\* The endpoint calls the scan: the cron route and the router's handler (by
\* its onWatchRefresh callback) call refreshGmailAPIWatches;
\* handleWatchRefresh runs its own loop over getExpiringWatches().
TriggeredScanBegin ==
    /\ trigger.pc = "call"
    /\ trigger.endpoint \in {"GET", "createWatchRefreshHandler"}
    /\ ScanBegin

TriggeredSdkScanBegin(listed) ==
    /\ trigger.pc = "call"
    /\ trigger.endpoint = "handleWatchRefresh"
    /\ SdkScanBegin(listed)

\* The scan has returned: the endpoint answers {success: true, ...}.
RefreshDone ==
    /\ trigger.pc = "call"
    /\ scan.pc = "done"
    /\ trigger' = [trigger EXCEPT !.pc = "answered", !.status = 200,
                                  !.body = "success"]
    /\ UNCHANGED <<conn, watch, now, peers, scan, stop, reply, registered>>
    /\ UNCHANGED pipeline
    /\ UNCHANGED elsewhere

\* The response is sent.
RefreshAnswered ==
    /\ trigger.pc = "answered"
    /\ trigger' = NoTrigger
    /\ UNCHANGED <<conn, watch, now, peers, scan, stop, reply, registered>>
    /\ UNCHANGED pipeline
    /\ UNCHANGED elsewhere

(* --------------------------- stopping a watch ------------------------- *)

\* stopWatching -> stopGmailAPIWatch ("app") or handleStopWatch ("sdk"):
\* the provider's users.stop call returns.
StopCallOk(kind, c) ==
    /\ stop.pc = "idle"
    /\ stop' = [pc |-> "write", kind |-> kind, id |-> c, notified |-> FALSE]
    /\ registered' = IF c = ConnectionId THEN AfterUsersStop(registered)
                      ELSE registered
    /\ UNCHANGED <<conn, watch, now, peers, scan, reply, trigger>>
    /\ UNCHANGED pipeline
    /\ UNCHANGED elsewhere

\* users.stop throws: stopPushNotifications / stopWatch wrap the error and
\* rethrow it, stopGmailAPIWatch's catch logs and rethrows it, and
\* handleStopWatch's catch answers 500.  The steps after the call (clearing
\* the expiration, onWatchStopped) are not reached.
StopCallFail(kind, c) ==
    /\ stop.pc = "idle"
    /\ stop' = [pc |-> "failed", kind |-> kind, id |-> c, notified |-> FALSE]
    /\ UNCHANGED <<conn, watch, now, peers, scan, reply, trigger, registered>>
    /\ UNCHANGED pipeline
    /\ UNCHANGED elsewhere

\* After a successful users.stop: stopGmailAPIWatch clears the row's
\* gmailWatchExpiration; handleStopWatch calls onWatchStopped.
StopWrite ==
    /\ stop.pc = "write"
    /\ IF stop.kind = "app"
       THEN UpdateRow(stop.id,
                      [Row(stop.id) EXCEPT !.gmailWatchExpiration = NoExpiration])
       ELSE UNCHANGED <<conn, peers>>
    /\ stop' = [stop EXCEPT !.pc = "stopped", !.notified = (stop.kind = "sdk")]
    /\ UNCHANGED <<watch, now, scan, reply, trigger, registered>>
    /\ UNCHANGED pipeline
    /\ UNCHANGED elsewhere

\* The stop request is answered: {success: true}, or the error.
StopAnswered ==
    /\ stop.pc \in {"stopped", "failed"}
    /\ stop' = IdleStop
    /\ UNCHANGED <<conn, watch, now, peers, scan, reply, trigger, registered>>
    /\ UNCHANGED pipeline
    /\ UNCHANGED elsewhere

(* ------------------ the notification request, in full ---------------- *)

\* POST's select of the connection by the notification's emailAddress: the
\* row is found by its address alone.
ConnectionFound(emailAddress) == emailAddress = email[ConnectionId]

\* The status of the response POST returns from the position it ended at: 400
\* for a body without message.data, 404 for an unknown address, 500 from the
\* catch, 200 after the cursor update (and for the direct format); 0 while
\* the request is unanswered.
ResponseStatus(pc) ==
    CASE pc = "invalid" -> 400
      [] pc = "notFound" -> 404
      [] pc = "failed" -> 500
      [] pc = "done" -> 200
      [] OTHER -> 0

\* POST from the request body to the computation of startHistoryId, for a
\* request that arrives when every earlier one has been answered.
Notify(p, hasData, emailAddress, hint) ==
    /\ NoneRunning
    /\ pass[p].pc = "idle"
    /\ \A q \in Passes : q < p => pass[q].pc # "idle"
    /\ pass' = [pass EXCEPT ![p] =
          IF ~hasData THEN [IdlePass EXCEPT !.pc = "invalid"]
          ELSE IF ~ConnectionFound(emailAddress)
          THEN [IdlePass EXCEPT !.pc = "notFound", !.hint = hint]
          ELSE [IdlePass EXCEPT
                  !.pc = "getHistory",
                  !.hint = hint,
                  !.startHistoryId = StartHistoryId(conn.gmailHistoryId, hint)]]
    /\ UNCHANGED <<mailboxHistoryId, conn, emailLog, posts, events, watch>>
    /\ UNCHANGED lifecycle
    /\ UNCHANGED elsewhere
    /\ UNCHANGED provider

\* history.list answers 404 for a startHistoryId that is too old or unknown
\* to the provider; getHistory rethrows it as any other error and POST's
\* catch answers 500.
GetHistoryInvalidCursor(p) ==
    /\ pass[p].pc = "getHistory"
    /\ pass' = [pass EXCEPT ![p].pc = "failed", ![p].invalidCursor = TRUE]
    /\ UNCHANGED <<mailboxHistoryId, conn, emailLog, posts, events, watch>>
    /\ UNCHANGED lifecycle
    /\ UNCHANGED elsewhere
    /\ UNCHANGED provider

(* --------------------- the SDK notification endpoints ----------------- *)

\* A response of an SDK endpoint: jsonResponse({success: true}) or
\* errorResponse(message, status), whose body is {error: message}.
Response(endpoint, envelope, called, status) ==
    [ endpoint |-> endpoint, envelope |-> envelope, called |-> called,
      status |-> status, body |-> IF status = 200 THEN "success" ELSE "error" ]

\* createGmailPubSubHandler: 400 for a body without message.data and for
\* data without emailAddress or historyId; otherwise the callback runs, and
\* the catch answers 500 if it throws.
createGmailPubSubHandler(envelope, callbackOk) ==
    IF envelope # "ok"
    THEN Response("createGmailPubSubHandler", envelope, FALSE, 400)
    ELSE Response("createGmailPubSubHandler", envelope, TRUE,
                  IF callbackOk THEN 200 ELSE 500)

\* handleGmailWebhook: parsePubSubNotification throws on a body without
\* message.data and on data without emailAddress or historyId, inside the
\* try whose catch answers 500, as it does when the callback throws.
handleGmailWebhook(envelope, callbackOk) ==
    IF envelope # "ok"
    THEN Response("handleGmailWebhook", envelope, FALSE, 500)
    ELSE Response("handleGmailWebhook", envelope, TRUE,
                  IF callbackOk THEN 200 ELSE 500)

\* The legacy route's POST: 400 without message.data; otherwise whatever
\* the data holds is passed to handleGmailPubSubNotification.
legacyPOST(envelope, callbackOk) ==
    IF envelope = "no_data"
    THEN Response("legacyPOST", envelope, FALSE, 400)
    ELSE Response("legacyPOST", envelope, TRUE,
                  IF callbackOk THEN 200 ELSE 500)

EndpointReply(endpoint, envelope, callbackOk) ==
    CASE endpoint = "createGmailPubSubHandler" ->
            createGmailPubSubHandler(envelope, callbackOk)
      [] endpoint = "handleGmailWebhook" ->
            handleGmailWebhook(envelope, callbackOk)
      [] endpoint = "legacyPOST" -> legacyPOST(envelope, callbackOk)

\* A request to an SDK notification endpoint is handled.  The endpoints keep
\* no state of their own and write none.
Deliver(endpoint, envelope, callbackOk) ==
    /\ reply = NoReply
    /\ reply' = EndpointReply(endpoint, envelope, callbackOk)
    /\ UNCHANGED <<conn, watch, now, peers, scan, stop, trigger, registered>>
    /\ UNCHANGED pipeline
    /\ UNCHANGED elsewhere

\* The response is sent.
Answered ==
    /\ reply # NoReply
    /\ reply' = NoReply
    /\ UNCHANGED <<conn, watch, now, peers, scan, stop, trigger, registered>>
    /\ UNCHANGED pipeline
    /\ UNCHANGED elsewhere

(* -------------------------- webhook signatures ------------------------ *)

\* JSON.stringify(payload): the bytes of the body.  A payload of the model
\* has a type and the id of the message it is about.
Stringify(payload) ==
    <<IF payload.type = "email.received" THEN 1 ELSE 2, payload.id>>

\* The number that a text of the model's bytes writes in base
\* Cardinality(Bytes).
RECURSIVE TextCode(_)
TextCode(text) ==
    IF text = <<>> THEN 0
    ELSE TextCode(SubSeq(text, 1, Len(text) - 1)) * Cardinality(Bytes)
            + text[Len(text)]

KeyCode(key) ==
    CASE key = EmptyKey -> 0
      [] key = "k1" -> 1
      [] key = "k2" -> 2

\* A stand-in for HMAC-SHA256: a keyed digest that, as HMAC-SHA256 is taken
\* to, gives different digests for different (key, text) pairs; texts of the
\* model have one length.
Hmac(key, text) == TextCode(text) * (Cardinality(Secrets) + 1) + KeyCode(key)

\* digest("hex"): the digest's digits, most significant first.
Hex(n) == [i \in 1..DigestLen |-> (n \div (16 ^ (DigestLen - i))) % 16]

\* `crypto.createHmac("sha256", secret).update(payload).digest("hex")`.
createWebhookSignature(payload, secret) == Hex(Hmac(secret, payload))

\* Mutant: only the first bytes are compared.
timingSafeEqualFirstByte(a, b) ==
    IF a # <<>> /\ b # <<>> /\ a[1] = b[1] THEN "true" ELSE "false"

\* crypto.timingSafeEqual: throws a RangeError for buffers of different
\* byte lengths, otherwise tells whether all bytes are equal.
timingSafeEqual(a, b) ==
    IF Len(a) # Len(b) THEN "throws"
    ELSE IF \A i \in 1..Len(a) : a[i] = b[i] THEN "true" ELSE "false"

\* verifyWebhookSignature: "true", "false", or "throws".
verifyWebhookSignature(payload, signature, secret) ==
    timingSafeEqual(signature, createWebhookSignature(payload, secret))

\* Mutant: every POST is signed with the same key.
SigningKeyShared(w) == "k1"

\* `webhookConfig.secret || ""`.
SigningKey(w) ==
    IF webhook[w].secret \in Secrets THEN webhook[w].secret ELSE EmptyKey

\* The sequences that differ from seq in exactly one position.
AlterOne(seq, values) ==
    {t \in [1..Len(seq) -> values] :
        Cardinality({i \in 1..Len(seq) : t[i] # seq[i]}) = 1}

\* sendWebhook from its try on, for a payload that passed its two checks:
\* the signature over JSON.stringify(payload), then the fetch with the same
\* JSON.stringify(payload) as its body.
SendWebhook(w, payload) ==
    /\ ShouldSend(w, payload.type)
    /\ request' =
          [ to |-> w,
            body |-> Stringify(payload),
            signature |-> createWebhookSignature(Stringify(payload),
                                                 SigningKey(w)),
            webhookId |-> w ]
    /\ verdict' = NoVerdict
    /\ UNCHANGED base
    /\ UNCHANGED tokens
    /\ UNCHANGED sending
    /\ UNCHANGED further

\* The subscriber calls verifyWebhookSignature on what it received.
Verify(payload, signature, secret) ==
    /\ request # NoRequest
    /\ verdict' =
          [ payload |-> payload, signature |-> signature, secret |-> secret,
            result |-> verifyWebhookSignature(payload, signature, secret) ]
    /\ UNCHANGED request
    /\ UNCHANGED base
    /\ UNCHANGED tokens
    /\ UNCHANGED sending
    /\ UNCHANGED further

(* --------------------------- the send endpoint ------------------------ *)

\* The id the provider gives the n-th message it accepts for sending; the
\* ids of received messages are 1..MaxMsgs.
SentId(n) == MaxMsgs + n

\* The row the send route inserts after the provider accepted the message.
OutboundRow(connectionId, messageId) ==
    [ id |-> <<0, messageId>>, gmailConnectionId |-> connectionId,
      messageId |-> messageId, direction |-> "outbound", status |-> "sent" ]

OutboundRows == {r \in emailLog : r.direction = "outbound"}

\* Mutant: the catch logs the failed attempt as an outbound row.
LogAfterSendFailureKeepsRow(log, connectionId) ==
    log \cup {OutboundRow(connectionId, 0)}

\* The route's catch answers the error and writes nothing.
LogAfterSendFailure(log, connectionId) == log

\* POST /api/send up to the provider call: the body is parsed, the
\* connection is selected by connection_id; 400 for an invalid body, 404
\* for no row, 400 for an inactive one.
SendBegin(valid, connectionId) ==
    /\ send.pc = "idle"
    /\ send' =
          IF ~valid
          THEN [NoSend EXCEPT !.pc = "answered", !.status = 400,
                              !.body = "error"]
          ELSE IF connectionId \notin ConnectionIds
          THEN [NoSend EXCEPT !.pc = "answered", !.status = 404,
                              !.body = "error",
                              !.connection_id = connectionId]
          ELSE IF ~Row(connectionId).isActive
          THEN [NoSend EXCEPT !.pc = "answered", !.status = 400,
                              !.body = "error",
                              !.connection_id = connectionId]
          ELSE [NoSend EXCEPT !.pc = "sendEmail",
                              !.connection_id = connectionId]
    /\ UNCHANGED outbox
    /\ UNCHANGED base
    /\ UNCHANGED tokens
    /\ UNCHANGED signing
    /\ UNCHANGED further

\* `await service.sendEmail(...)` returns: the provider has accepted the
\* message and given it an id.
SendEmailOk ==
    /\ send.pc = "sendEmail"
    /\ outbox < MaxSends
    /\ outbox' = outbox + 1
    /\ send' = [send EXCEPT !.pc = "insert", !.called = TRUE,
                            !.id = SentId(outbox + 1)]
    /\ UNCHANGED base
    /\ UNCHANGED tokens
    /\ UNCHANGED signing
    /\ UNCHANGED further

\* createGmailAPIService or users.messages.send throws: sendEmail wraps the
\* provider's error in its message and the route's catch answers 500 with
\* that message.
SendEmailFail ==
    /\ send.pc = "sendEmail"
    /\ send' = [send EXCEPT !.pc = "answered", !.called = TRUE,
                            !.status = 500, !.body = "error"]
    /\ emailLog' = LogAfterSendFailure(emailLog, send.connection_id)
    /\ UNCHANGED outbox
    /\ UNCHANGED <<mailboxHistoryId, conn, pass, posts, events, watch, now,
                   peers, scan, stop, reply, trigger, registered>>
    /\ UNCHANGED tokens
    /\ UNCHANGED signing
    /\ UNCHANGED further

\* "Log the email", then the Resend-compatible response with the id.
SendInsert ==
    /\ send.pc = "insert"
    /\ emailLog' = emailLog \cup {OutboundRow(send.connection_id, send.id)}
    /\ send' = [send EXCEPT !.pc = "answered", !.status = 200,
                            !.body = "id"]
    /\ UNCHANGED outbox
    /\ UNCHANGED <<mailboxHistoryId, conn, pass, posts, events, watch, now,
                   peers, scan, stop, reply, trigger, registered>>
    /\ UNCHANGED tokens
    /\ UNCHANGED signing
    /\ UNCHANGED further

\* The insert throws: the same catch answers 500 with the error's message,
\* after the provider accepted the message.
SendInsertFail ==
    /\ send.pc = "insert"
    /\ send' = [send EXCEPT !.pc = "answered", !.status = 500,
                            !.body = "error"]
    /\ UNCHANGED outbox
    /\ UNCHANGED base
    /\ UNCHANGED tokens
    /\ UNCHANGED signing
    /\ UNCHANGED further

\* The response is sent.
SendAnswered ==
    /\ send.pc = "answered"
    /\ send' = NoSend
    /\ UNCHANGED outbox
    /\ UNCHANGED base
    /\ UNCHANGED tokens
    /\ UNCHANGED signing
    /\ UNCHANGED further

(* ------------------------- the Pub/Sub poller ------------------------- *)

\* The pulled messages, in the order of their publication.
RECURSIVE InOrder(_)
InOrder(S) ==
    IF S = {} THEN <<>>
    ELSE LET first == CHOOSE n \in S : \A o \in S : n.id <= o.id
         IN  <<first>> \o InOrder(S \ {first})

\* The Pub/Sub message the invocation's loop is at, and the added-message
\* reference its pass is at.
PollCurrent(r) == poll[r].batch[poll[r].at]

PollCurrentMsg(r) == poll[r].refs[poll[r].handled + 1]

\* The loop goes on with the next pulled message.
NextPulled(r) ==
    [IdlePoll EXCEPT !.pc = "next", !.batch = poll[r].batch,
                     !.at = poll[r].at + 1]

\* Mutant: a failed pass acknowledges its message.
UnackedAfterFailureAcks(unacked, message) == unacked \ {message}

\* "Don't ack - message will be redelivered": the catch only logs.
UnackedAfterFailure(unacked, message) == unacked

\* `subscription.ack([message])`.
UnackedAfterAck(unacked, message) == unacked \ {message}

\* The row the poller's processNewMessage inserts and the payload it
\* creates; the ids stand for crypto.randomUUID().
PolledLogRow(messageId) ==
    [ id |-> <<MaxPasses + 1 + Cardinality(emailLog), messageId>>,
      gmailConnectionId |-> ConnectionId, messageId |-> messageId,
      direction |-> "inbound", status |-> "received" ]

PolledEvent(messageId) == <<MaxPasses + 1 + Cardinality(events), messageId>>

\* sendWebhooksForConnection: one POST of the event to every target.
PostedToAll(targets, event) ==
    [k \in DOMAIN posts \cup {<<w, event>> : w \in targets} |->
        IF k[2] = event /\ k[1] \in targets
        THEN PostCount(k[1], event) + 1
        ELSE posts[k]]

\* Gmail publishes a notification: the address of the connection's mailbox
\* or of a mailbox no row has, and a history id of the mailbox.
Publish(emailAddress, historyId) ==
    /\ subscription.published < MaxNotes
    /\ subscription' =
          [subscription EXCEPT
              !.published = @ + 1,
              !.unacked = @ \cup {[id |-> subscription.published + 1,
                                   emailAddress |-> emailAddress,
                                   historyId |-> historyId]}]
    /\ UNCHANGED poll
    /\ UNCHANGED base
    /\ UNCHANGED <<tokens, signing, sending>>
    /\ UNCHANGED besidePolling

\* pollForNotifications is called: `subscription.pull({maxMessages: 10})`
\* returns some of the unacknowledged messages; with none it returns.
Pull(r, messages) ==
    /\ poll[r].pc = "idle"
    /\ subscription.pulls < MaxPulls
    /\ messages \subseteq subscription.unacked
    /\ subscription' = [subscription EXCEPT !.pulls = @ + 1]
    /\ poll' = [poll EXCEPT
                  ![r] = IF messages = {} THEN IdlePoll
                         ELSE [IdlePoll EXCEPT !.pc = "next",
                                               !.batch = InOrder(messages),
                                               !.at = 1]]
    /\ UNCHANGED base
    /\ UNCHANGED <<tokens, signing, sending>>
    /\ UNCHANGED besidePolling

\* The message is decoded and the connection selected by its address: with
\* no row the message is acknowledged and the loop goes on; otherwise the
\* pass starts from `connection.gmailHistoryId || historyId`.
PollLookup(r) ==
    /\ poll[r].pc = "next"
    /\ poll[r].at <= Len(poll[r].batch)
    /\ IF ConnectionFound(PollCurrent(r).emailAddress)
       THEN /\ poll' = [poll EXCEPT
                          ![r].pc = "getHistory",
                          ![r].startHistoryId =
                              StartHistoryId(conn.gmailHistoryId,
                                             PollCurrent(r).historyId)]
            /\ UNCHANGED subscription
       ELSE /\ poll' = [poll EXCEPT ![r] = NextPulled(r)]
            /\ subscription' =
                  [subscription EXCEPT
                      !.unacked = UnackedAfterAck(@, PollCurrent(r))]
    /\ UNCHANGED base
    /\ UNCHANGED <<tokens, signing, sending>>
    /\ UNCHANGED besidePolling

\* `await service.getHistory(startHistoryId)` returns.
PollGetHistoryOk(r) ==
    /\ poll[r].pc = "getHistory"
    /\ LET h == getHistory(poll[r].startHistoryId) IN
       poll' = [poll EXCEPT
                  ![r].refs = h.history,
                  ![r].historyId = h.historyId,
                  ![r].pc = IF h.history = <<>> THEN "update"
                            ELSE "process"]
    /\ UNCHANGED subscription
    /\ UNCHANGED base
    /\ UNCHANGED <<tokens, signing, sending>>
    /\ UNCHANGED besidePolling

\* createGmailAPIService or getHistory throws: the catch inside the loop
\* logs it, the message is not acknowledged and the loop goes on.
PollGetHistoryFail(r) ==
    /\ poll[r].pc = "getHistory"
    /\ poll' = [poll EXCEPT ![r] = NextPulled(r)]
    /\ subscription' =
          [subscription EXCEPT
              !.unacked = UnackedAfterFailure(@, PollCurrent(r))]
    /\ UNCHANGED base
    /\ UNCHANGED <<tokens, signing, sending>>
    /\ UNCHANGED besidePolling

\* The poller's processNewMessage: getMessage, the insert into email_log
\* (there is no select before it), the payload, sendWebhooksForConnection.
PollProcess(r) ==
    /\ poll[r].pc = "process"
    /\ emailLog' = emailLog \cup {PolledLogRow(PollCurrentMsg(r))}
    /\ events' = events \cup {PolledEvent(PollCurrentMsg(r))}
    /\ posts' = PostedToAll(FanoutTargets(ConnectionId, "email.received"),
                            PolledEvent(PollCurrentMsg(r)))
    /\ poll' = [poll EXCEPT
                  ![r].handled = @ + 1,
                  ![r].pc = IF poll[r].handled + 1 < Len(poll[r].refs)
                            THEN "process" ELSE "update"]
    /\ UNCHANGED subscription
    /\ UNCHANGED <<mailboxHistoryId, conn, pass, watch, now, peers, scan,
                   stop, reply, trigger, registered>>
    /\ UNCHANGED <<tokens, signing, sending>>
    /\ UNCHANGED besidePolling

\* getMessage throws: processNewMessage's catch logs it and returns.
PollProcessFail(r) ==
    /\ poll[r].pc = "process"
    /\ poll' = [poll EXCEPT
                  ![r].handled = @ + 1,
                  ![r].pc = IF poll[r].handled + 1 < Len(poll[r].refs)
                            THEN "process" ELSE "update"]
    /\ UNCHANGED subscription
    /\ UNCHANGED base
    /\ UNCHANGED <<tokens, signing, sending>>
    /\ UNCHANGED besidePolling

\* "Update the history ID".
PollUpdate(r) ==
    /\ poll[r].pc = "update"
    /\ conn' = [conn EXCEPT !.gmailHistoryId = poll[r].historyId]
    /\ poll' = [poll EXCEPT ![r].pc = "ack", ![r].persisted = TRUE]
    /\ UNCHANGED subscription
    /\ UNCHANGED <<mailboxHistoryId, emailLog, pass, posts, events, watch,
                   now, peers, scan, stop, reply, trigger, registered>>
    /\ UNCHANGED <<tokens, signing, sending>>
    /\ UNCHANGED besidePolling

\* The update throws: the same catch; the message is not acknowledged.
PollUpdateFail(r) ==
    /\ poll[r].pc = "update"
    /\ poll' = [poll EXCEPT ![r] = NextPulled(r)]
    /\ subscription' =
          [subscription EXCEPT
              !.unacked = UnackedAfterFailure(@, PollCurrent(r))]
    /\ UNCHANGED base
    /\ UNCHANGED <<tokens, signing, sending>>
    /\ UNCHANGED besidePolling

\* "Acknowledge the message".
PollAck(r) ==
    /\ poll[r].pc = "ack"
    /\ subscription' =
          [subscription EXCEPT
              !.unacked = UnackedAfterAck(@, PollCurrent(r))]
    /\ poll' = [poll EXCEPT ![r] = NextPulled(r)]
    /\ UNCHANGED base
    /\ UNCHANGED <<tokens, signing, sending>>
    /\ UNCHANGED besidePolling

\* The acknowledgement throws: the same catch.
PollAckFail(r) ==
    /\ poll[r].pc = "ack"
    /\ poll' = [poll EXCEPT ![r] = NextPulled(r)]
    /\ subscription' =
          [subscription EXCEPT
              !.unacked = UnackedAfterFailure(@, PollCurrent(r))]
    /\ UNCHANGED base
    /\ UNCHANGED <<tokens, signing, sending>>
    /\ UNCHANGED besidePolling

\* The loop is over: pollForNotifications returns.
PollEnd(r) ==
    /\ poll[r].pc = "next"
    /\ poll[r].at > Len(poll[r].batch)
    /\ poll' = [poll EXCEPT ![r] = IdlePoll]
    /\ UNCHANGED subscription
    /\ UNCHANGED base
    /\ UNCHANGED <<tokens, signing, sending>>
    /\ UNCHANGED besidePolling

(* ----------------------- the SDK's start-watch ------------------------ *)

\* The catch of handleStartWatch: 500 with the error's message.
StartFailed(r, calls) ==
    [r EXCEPT !.pc = "answered", !.calls = calls, !.status = 500,
                    !.body = "error"]

\* Mutant: a failed users.watch is swallowed and the handler goes on to the
\* callback.
PcAfterWatchFailureGoesOn(r, calls) ==
    [r EXCEPT !.pc = "onWatchStarted", !.calls = calls]

\* startWatch rethrows a failed users.watch; the handler's catch answers.
PcAfterWatchFailure(r, calls) == StartFailed(r, calls)

\* POST /watch: the body is read; without an email the answer is 400.
StartRequest(address) ==
    /\ start.pc = "idle"
    /\ start' = IF address = NoEmail
                THEN [NoStart EXCEPT !.pc = "answered", !.status = 400,
                                     !.body = "error"]
                ELSE [NoStart EXCEPT !.pc = "getTokens", !.email = address]
    /\ UNCHANGED started
    /\ UNCHANGED base
    /\ UNCHANGED <<tokens, signing, sending>>
    /\ UNCHANGED besideStarting

\* `await getTokens(email)` returns.
StartGetTokensOk ==
    /\ start.pc = "getTokens"
    /\ start' = [start EXCEPT !.pc = "startWatch",
                              !.calls = Append(@, "getTokens")]
    /\ UNCHANGED started
    /\ UNCHANGED base
    /\ UNCHANGED <<tokens, signing, sending>>
    /\ UNCHANGED besideStarting

\* getTokens throws.
StartGetTokensFail ==
    /\ start.pc = "getTokens"
    /\ start' = StartFailed(start, Append(start.calls, "getTokens"))
    /\ UNCHANGED started
    /\ UNCHANGED base
    /\ UNCHANGED <<tokens, signing, sending>>
    /\ UNCHANGED besideStarting

\* `await gmailService.startWatch(...)` returns: users.watch succeeded.
StartWatchOk ==
    /\ start.pc = "startWatch"
    /\ start' = [start EXCEPT !.pc = "onWatchStarted",
                              !.calls = Append(@, "users.watch")]
    /\ started' = [started EXCEPT ![start.email].watched = TRUE]
    /\ UNCHANGED base
    /\ UNCHANGED <<tokens, signing, sending>>
    /\ UNCHANGED besideStarting

\* users.watch throws.
StartWatchFail ==
    /\ start.pc = "startWatch"
    /\ start' = PcAfterWatchFailure(start, Append(start.calls, "users.watch"))
    /\ UNCHANGED started
    /\ UNCHANGED base
    /\ UNCHANGED <<tokens, signing, sending>>
    /\ UNCHANGED besideStarting

\* `await onWatchStarted(watch)` returns; the handler answers
\* {success: true, watch}.
StartCallbackOk ==
    /\ start.pc = "onWatchStarted"
    /\ start' = [start EXCEPT !.pc = "answered", !.status = 200,
                              !.body = "success",
                              !.calls = Append(@, "onWatchStarted")]
    /\ started' = [started EXCEPT ![start.email].notified = TRUE]
    /\ UNCHANGED base
    /\ UNCHANGED <<tokens, signing, sending>>
    /\ UNCHANGED besideStarting

\* onWatchStarted throws.
StartCallbackFail ==
    /\ start.pc = "onWatchStarted"
    /\ start' = StartFailed(start, Append(start.calls, "onWatchStarted"))
    /\ UNCHANGED started
    /\ UNCHANGED base
    /\ UNCHANGED <<tokens, signing, sending>>
    /\ UNCHANGED besideStarting

\* The response is sent.
StartAnswered ==
    /\ start.pc = "answered"
    /\ start' = NoStart
    /\ UNCHANGED started
    /\ UNCHANGED base
    /\ UNCHANGED <<tokens, signing, sending>>
    /\ UNCHANGED besideStarting

(* ----------------------- creating a connection ----------------------- *)

\* The row POST /api/connections inserts; `id` stands for
\* crypto.randomUUID().  No column of it is read back before the insert.
CreatedRow(id, address) ==
    [ id |-> id, email |-> address, isActive |-> TRUE,
      gmailHistoryId |-> NoCursor, gmailWatchExpiration |-> NoExpiration ]

\* The rows a select by address returns.
RowsByEmail(address) ==
    {i \in 1..Len(created) : created[i].email = address}

\* Mutant: a failed startWatching is rethrown to the route's catch.
AfterWatchFailureAnswers500(r) ==
    [r EXCEPT !.pc = "answered", !.watchFailed = TRUE, !.status = 500,
              !.body = "error"]

\* "Don't fail the request if watching fails": the response is the 201.
AfterWatchFailure(r) ==
    [r EXCEPT !.pc = "answered", !.watchFailed = TRUE, !.status = 201,
              !.body = "connection"]

\* POST /api/connections up to the insert: 400 for an invalid body, 404
\* without a Google account, 400 for one without tokens; otherwise the row
\* is inserted, and the watch is started if start_watching is set.
CreateRequest(valid, googleAccount, address, start_watching) ==
    /\ create.pc = "idle"
    /\ IF ~valid \/ googleAccount # "ok"
       THEN /\ create' = [NoCreate EXCEPT
                            !.pc = "answered",
                            !.status = IF ~valid THEN 400
                                       ELSE IF googleAccount = "none"
                                       THEN 404 ELSE 400,
                            !.body = "error"]
            /\ UNCHANGED created
       ELSE /\ Len(created) < MaxConnections
            /\ created' = Append(created,
                                 CreatedRow(Len(created) + 1, address))
            /\ create' = IF start_watching
                         THEN [NoCreate EXCEPT !.pc = "startWatching",
                                               !.id = Len(created) + 1]
                         ELSE [NoCreate EXCEPT !.pc = "answered",
                                               !.id = Len(created) + 1,
                                               !.status = 201,
                                               !.body = "connection"]
    /\ UNCHANGED base
    /\ UNCHANGED <<tokens, signing, sending>>
    /\ UNCHANGED besideCreating

\* The insert throws: the route's catch answers 500.
CreateInsertFail ==
    /\ create.pc = "idle"
    /\ create' = [NoCreate EXCEPT !.pc = "answered", !.status = 500,
                                  !.body = "error"]
    /\ UNCHANGED created
    /\ UNCHANGED base
    /\ UNCHANGED <<tokens, signing, sending>>
    /\ UNCHANGED besideCreating

\* `await startWatching(newConnection.id)` returns: startGmailAPIWatch has
\* written the cursor and the expiration of the watch to the row.
CreateWatchOk ==
    /\ create.pc = "startWatching"
    /\ created' = [created EXCEPT
                      ![create.id] =
                          WatchUpdate(@, setupPushNotifications(0))]
    /\ create' = [create EXCEPT !.pc = "answered", !.status = 201,
                                !.body = "connection"]
    /\ UNCHANGED base
    /\ UNCHANGED <<tokens, signing, sending>>
    /\ UNCHANGED besideCreating

\* startWatching throws (the connection is not of type api, the token
\* refresh, users.watch): the inner catch logs it.
CreateWatchFail ==
    /\ create.pc = "startWatching"
    /\ create' = AfterWatchFailure(create)
    /\ UNCHANGED created
    /\ UNCHANGED base
    /\ UNCHANGED <<tokens, signing, sending>>
    /\ UNCHANGED besideCreating

\* The response is sent.
CreateAnswered ==
    /\ create.pc = "answered"
    /\ create' = NoCreate
    /\ UNCHANGED created
    /\ UNCHANGED base
    /\ UNCHANGED <<tokens, signing, sending>>
    /\ UNCHANGED besideCreating

(* ---------------------------- IMAP watchers -------------------------- *)

\* `activeWatchers.has(connection.id)`.
AlreadyWatching == activeWatchers # NoWatcher

\* The watchers that are running.
Running == {w \in 1..Len(watchers) : watchers[w]}

\* startIMAPWatch up to its first await: it returns if the map has an
\* entry, otherwise it goes on to create the service.
ImapStartBegin(k) ==
    /\ imapCall[k].pc = "idle"
    /\ ~AlreadyWatching
    /\ imapCall' = [imapCall EXCEPT ![k].pc = "createService"]
    /\ UNCHANGED <<activeWatchers, watchers>>
    /\ UNCHANGED base
    /\ UNCHANGED <<tokens, signing, sending>>
    /\ UNCHANGED besideImap

\* `await createSMTPIMAPService(connection.id)` returns.
ImapServiceOk(k) ==
    /\ imapCall[k].pc = "createService"
    /\ imapCall' = [imapCall EXCEPT ![k].pc = "watchForNewEmails"]
    /\ UNCHANGED <<activeWatchers, watchers>>
    /\ UNCHANGED base
    /\ UNCHANGED <<tokens, signing, sending>>
    /\ UNCHANGED besideImap

\* createSMTPIMAPService or watchForNewEmails throws: the catch logs and
\* rethrows; no watcher was started.
ImapStartFail(k) ==
    /\ imapCall[k].pc \in {"createService", "watchForNewEmails"}
    /\ imapCall' = [imapCall EXCEPT ![k] = IdleImapCall]
    /\ UNCHANGED <<activeWatchers, watchers>>
    /\ UNCHANGED base
    /\ UNCHANGED <<tokens, signing, sending>>
    /\ UNCHANGED besideImap

\* `await service.watchForNewEmails(...)` returns the stop function of the
\* watcher it started, and `activeWatchers.set` stores it, replacing the
\* entry the map has by then.
ImapWatchOk(k) ==
    /\ imapCall[k].pc = "watchForNewEmails"
    /\ Len(watchers) < MaxWatchers
    /\ watchers' = Append(watchers, TRUE)
    /\ activeWatchers' = Len(watchers) + 1
    /\ imapCall' = [imapCall EXCEPT ![k] = IdleImapCall]
    /\ UNCHANGED base
    /\ UNCHANGED <<tokens, signing, sending>>
    /\ UNCHANGED besideImap

\* stopIMAPWatch up to its await: with an entry in the map it calls the
\* entry's stop function; without one it returns.
ImapStopBegin(k) ==
    /\ imapCall[k].pc = "idle"
    /\ AlreadyWatching
    /\ imapCall' = [imapCall EXCEPT ![k].pc = "stopWatcher",
                                    ![k].stopWatcher = activeWatchers]
    /\ UNCHANGED <<activeWatchers, watchers>>
    /\ UNCHANGED base
    /\ UNCHANGED <<tokens, signing, sending>>
    /\ UNCHANGED besideImap

\* `await stopWatcher()` returns: that watcher has stopped, and
\* `activeWatchers.delete` removes the entry the map has by then.
ImapStopDone(k) ==
    /\ imapCall[k].pc = "stopWatcher"
    /\ watchers' = [watchers EXCEPT ![imapCall[k].stopWatcher] = FALSE]
    /\ activeWatchers' = NoWatcher
    /\ imapCall' = [imapCall EXCEPT ![k] = IdleImapCall]
    /\ UNCHANGED base
    /\ UNCHANGED <<tokens, signing, sending>>
    /\ UNCHANGED besideImap

\* stopWatcher throws: the error leaves stopIMAPWatch before the delete.
ImapStopFail(k) ==
    /\ imapCall[k].pc = "stopWatcher"
    /\ imapCall' = [imapCall EXCEPT ![k] = IdleImapCall]
    /\ UNCHANGED <<activeWatchers, watchers>>
    /\ UNCHANGED base
    /\ UNCHANGED <<tokens, signing, sending>>
    /\ UNCHANGED besideImap

(* ------------------------ the parsed-email store --------------------- *)

\* The rows of parsed_emails with this message id.
ParsedRows(messageId) == {row \in parsedEmails : row.messageId = messageId}

\* Mutant: message_id has no unique constraint.
InsertParsedNoConstraint(rows, row) == rows \cup {row}

\* `db.insert(parsedEmails)`: message_id is unique, so the insert of a
\* second row for a message id throws; storeParsedEmail's catch logs it.
InsertParsed(rows, row) ==
    IF \E other \in rows : other.messageId = row.messageId
    THEN rows
    ELSE rows \cup {row}

\* `db.update(parsedEmails).set({...parsedEmailData, id: existing.id, ...})
\*  .where(eq(parsedEmails.messageId, parsed.id))`.
UpdateParsed(rows, messageId, id, call) ==
    {IF row.messageId = messageId
     THEN [row EXCEPT !.id = id, !.writtenBy = call]
     ELSE row : row \in rows}

\* storeParsedEmail up to its select: "Check if parsed email already
\* exists".
StoreSelect(k, messageId) ==
    /\ storing[k].pc = "idle"
    /\ storeCalls < MaxStores
    /\ storeCalls' = storeCalls + 1
    /\ storing' =
          [storing EXCEPT
              ![k] = [ pc |-> "write", call |-> storeCalls + 1,
                       messageId |-> messageId,
                       existing |->
                           IF ParsedRows(messageId) = {} THEN NoRow
                           ELSE (CHOOSE row \in ParsedRows(messageId) :
                                    TRUE).id ]]
    /\ UNCHANGED parsedEmails
    /\ UNCHANGED base
    /\ UNCHANGED <<tokens, signing, sending>>
    /\ UNCHANGED besideParsing

\* The update of the existing row, or the insert of a new one whose id
\* stands for crypto.randomUUID().
StoreWrite(k) ==
    /\ storing[k].pc = "write"
    /\ parsedEmails' =
          IF storing[k].existing # NoRow
          THEN UpdateParsed(parsedEmails, storing[k].messageId,
                            storing[k].existing, storing[k].call)
          ELSE InsertParsed(parsedEmails,
                            [ id |-> storing[k].call,
                              messageId |-> storing[k].messageId,
                              writtenBy |-> storing[k].call ])
    /\ storing' = [storing EXCEPT ![k] = IdleStore]
    /\ UNCHANGED storeCalls
    /\ UNCHANGED base
    /\ UNCHANGED <<tokens, signing, sending>>
    /\ UNCHANGED besideParsing

\* The select or the write throws: "Don't throw - this is not critical".
StoreFail(k) ==
    /\ storing[k].pc = "write"
    /\ storing' = [storing EXCEPT ![k] = IdleStore]
    /\ UNCHANGED <<parsedEmails, storeCalls>>
    /\ UNCHANGED base
    /\ UNCHANGED <<tokens, signing, sending>>
    /\ UNCHANGED besideParsing

(* ----------------------------- RateLimiter --------------------------- *)

\* The tasks whose fn() was called and has not settled.
RunningTasks == {t \in Tasks : tasks[t] = "running"}

\* Mutant: process() does not look at the running count.
AtCapacityNever(l) == FALSE

\* `this.running >= this.maxConcurrent`.
AtCapacity(l) == l.running >= l.maxConcurrent

\* process() up to `await fn()`: nothing if the limiter is at capacity or
\* the queue is empty, otherwise the head of the queue is shifted, counted
\* and called.  It runs without yielding, so it is one step.
ProcessStarts(l) == ~AtCapacity(l) /\ Len(l.queue) > 0

LimiterAfterProcess(l) ==
    IF ProcessStarts(l)
    THEN [l EXCEPT !.queue = Tail(@), !.running = @ + 1]
    ELSE l

TasksAfterProcess(l, ts) ==
    IF ProcessStarts(l)
    THEN [ts EXCEPT ![Head(l.queue)] = "running"]
    ELSE ts

\* `new RateLimiter(maxConcurrent, minDelayMs)`.
NewRateLimiter(maxConcurrent, minDelayMs) ==
    /\ ~limiter.made
    /\ limiter' =
          [NoLimiter EXCEPT !.made = TRUE,
                            !.maxConcurrent = maxConcurrent,
                            !.minDelayMs = minDelayMs]
    /\ UNCHANGED <<tasks, delayed>>
    /\ UNCHANGED base
    /\ UNCHANGED <<tokens, signing, sending>>
    /\ UNCHANGED besideLimiting

\* add(fn): the wrapper is pushed and process() is called.
Add(t) ==
    /\ limiter.made
    /\ tasks[t] = "new"
    /\ LET pushed == [limiter EXCEPT !.queue = Append(@, t)]
       IN  /\ limiter' = LimiterAfterProcess(pushed)
           /\ tasks' = TasksAfterProcess(pushed, [tasks EXCEPT ![t] = "queued"])
    /\ UNCHANGED delayed
    /\ UNCHANGED base
    /\ UNCHANGED <<tokens, signing, sending>>
    /\ UNCHANGED besideLimiting

\* A running task resolves or rejects; process()'s finally uncounts it and,
\* with no minimum delay, calls process() again at once.
Settle(t, outcome) ==
    /\ tasks[t] = "running"
    /\ LET freed == [limiter EXCEPT !.running = @ - 1]
           settled == [tasks EXCEPT ![t] = outcome]
       IN  IF limiter.minDelayMs > 0
           THEN /\ limiter' = freed
                /\ tasks' = settled
                /\ delayed' = delayed + 1
           ELSE /\ limiter' = LimiterAfterProcess(freed)
                /\ tasks' = TasksAfterProcess(freed, settled)
                /\ UNCHANGED delayed
    /\ UNCHANGED base
    /\ UNCHANGED <<tokens, signing, sending>>
    /\ UNCHANGED besideLimiting

\* The setTimeout of minDelayMs fires; process() is called again.
DelayElapsed ==
    /\ delayed > 0
    /\ delayed' = delayed - 1
    /\ limiter' = LimiterAfterProcess(limiter)
    /\ tasks' = TasksAfterProcess(limiter, tasks)
    /\ UNCHANGED base
    /\ UNCHANGED <<tokens, signing, sending>>
    /\ UNCHANGED besideLimiting

(* --------------------------- the access token ------------------------- *)

\* `connection.gmailTokenExpiry &&
\*  new Date(connection.gmailTokenExpiry) < new Date()`.
TokenExpired(expiry) == expiry # NoExpiration /\ expiry < now

\* createGmailAPIService up to its check: the select of the row, the service
\* built from the row's tokens, and whether the token needs a refresh.
CreateService(r) ==
    /\ client[r].pc = "idle"
    /\ client' = [client EXCEPT ![r] =
          [IdleClient EXCEPT
             !.accessToken = credentials.gmailAccessToken,
             !.pc = IF TokenExpired(credentials.gmailTokenExpiry)
                    THEN "refresh" ELSE "ready"]]
    /\ UNCHANGED <<credentials, issued>>
    /\ UNCHANGED base
    /\ UNCHANGED signing
    /\ UNCHANGED sending
    /\ UNCHANGED further

\* `await service.refreshAccessToken()` returns: the provider has issued a
\* new access token, which the service's client now holds.
RefreshOk(r) ==
    /\ client[r].pc = "refresh"
    /\ issued < MaxIssued
    /\ issued' = issued + 1
    /\ client' = [client EXCEPT ![r].accessToken = issued + 1,
                                ![r].expiryDate = now + TokenLifetime,
                                ![r].pc = "persist"]
    /\ UNCHANGED <<credentials>>
    /\ UNCHANGED base
    /\ UNCHANGED signing
    /\ UNCHANGED sending
    /\ UNCHANGED further

\* The refresh throws (revoked refresh token, network): createGmailAPIService
\* throws, and its caller makes no provider call.
RefreshFail(r) ==
    /\ client[r].pc = "refresh"
    /\ client' = [client EXCEPT ![r].pc = "failed"]
    /\ UNCHANGED <<credentials, issued>>
    /\ UNCHANGED base
    /\ UNCHANGED signing
    /\ UNCHANGED sending
    /\ UNCHANGED further

\* "Update the connection with new token"; the service is returned.
PersistTokens(r) ==
    /\ client[r].pc = "persist"
    /\ credentials' = [gmailAccessToken |-> client[r].accessToken,
                       gmailTokenExpiry |-> client[r].expiryDate]
    /\ client' = [client EXCEPT ![r].persisted = TRUE, ![r].pc = "ready"]
    /\ UNCHANGED <<issued>>
    /\ UNCHANGED base
    /\ UNCHANGED signing
    /\ UNCHANGED sending
    /\ UNCHANGED further

\* The caller makes a provider call with the service it got (getHistory,
\* then a getMessage per added message; users.watch; users.stop; send).
ProviderCall(r) ==
    /\ client[r].pc = "ready"
    /\ client[r].calls < MaxCalls
    /\ client' = [client EXCEPT ![r].calls = @ + 1]
    /\ UNCHANGED <<credentials, issued>>
    /\ UNCHANGED base
    /\ UNCHANGED signing
    /\ UNCHANGED sending
    /\ UNCHANGED further

\* The request that used the service is answered.
ServiceReleased(r) ==
    /\ client[r].pc \in {"ready", "failed"}
    /\ client' = [client EXCEPT ![r] = IdleClient]
    /\ UNCHANGED <<credentials, issued>>
    /\ UNCHANGED base
    /\ UNCHANGED signing
    /\ UNCHANGED sending
    /\ UNCHANGED further

(* ------------------------------- Next --------------------------------- *)

PassStep(p) ==
    \/ GetHistoryOk(p)
    \/ GetHistoryFail(p)
    \/ GetMessageFail(p)
    \/ CheckExisting(p)
    \/ InsertAndSend(p)
    \/ \E x \in pass[p].pending, outcome \in Outcomes :
          Post(p, x[1], x[2], outcome)
    \/ FanoutDone(p)
    \/ UpdateHistoryId(p)

\* Requests of the Pub/Sub format, running concurrently.
Next ==
    \/ Arrive
    \/ \E p \in Passes, hint \in 0..mailboxHistoryId : ConcurrentBegin(p, hint)
    \/ \E p \in Passes : PassStep(p)
    \/ WatchCall
    \/ WatchWrite

Spec == Init /\ [][Next]_vars

\* Requests of both formats, handled one after another.
SeqNext ==
    \/ Arrive
    \/ \E p \in Passes, hint \in 0..mailboxHistoryId : SequentialBegin(p, hint)
    \/ \E p \in Passes, m \in 1..mailboxHistoryId : DirectBegin(p, m)
    \/ \E p \in Passes : PassStep(p)
    \/ \E p \in Passes : DirectCheck(p)
    \/ \E p \in Passes : DirectInsertAndSend(p)
    \/ \E p \in Passes : DirectFanoutDone(p)
    \/ WatchCall
    \/ WatchWrite

SeqSpec == Init /\ [][SeqNext]_vars

\* The connection may have been deactivated before the run.
HandlerInit ==
    /\ PipelineInit
    /\ LifecycleInit
    /\ conn \in {[NewConnection EXCEPT !.isActive = a] : a \in BOOLEAN}
    /\ peers = [c \in OtherConnectionIds |-> NewConnection]
    /\ ProviderInit
    /\ ElsewhereInit

\* Requests to the notification endpoints, followed one by one from the
\* body to the response.
HandlerNext ==
    \/ Arrive
    \/ \E p \in Passes, hasData \in BOOLEAN, emailAddress \in Addresses,
          hint \in 0..mailboxHistoryId :
              Notify(p, hasData, emailAddress, hint)
    \/ \E p \in Passes : PassStep(p)
    \/ \E p \in Passes : GetHistoryInvalidCursor(p)
    \/ \E endpoint \in Endpoints, envelope \in Envelopes,
          callbackOk \in BOOLEAN :
              Deliver(endpoint, envelope, callbackOk)
    \/ Answered

HandlerSpec == HandlerInit /\ [][HandlerNext]_vars

\* The expirations the rows hold when the run starts: none, or one hour
\* inside, at, and one hour outside the renewal threshold.
InitialExpirations ==
    {NoExpiration, RenewalThreshold - 1, RenewalThreshold, RenewalThreshold + 1}

\* Rows as earlier watch registrations and deactivations left them: active
\* with any of the expirations, or deactivated with a watch that is due.
StoredRows ==
    {[gmailHistoryId |-> IF e = NoExpiration THEN NoCursor ELSE 0,
      gmailWatchExpiration |-> e, isActive |-> TRUE] :
        e \in InitialExpirations}
    \cup {[gmailHistoryId |-> 0,
           gmailWatchExpiration |-> RenewalThreshold - 1,
           isActive |-> FALSE]}

ScanInit ==
    /\ PipelineInit
    /\ LifecycleInit
    /\ conn \in StoredRows
    /\ peers \in [OtherConnectionIds -> StoredRows]
    /\ ProviderInit
    /\ ElsewhereInit

\* No lifecycle request is in progress and no scan has run.
Quiet == scan.pc = "idle" /\ stop.pc = "idle" /\ watch.pc = "idle"

\* The requests of the watch lifecycle arrive one after another.
SequentialRefreshRequest(endpoint, authorization) ==
    Quiet /\ RefreshRequest(endpoint, authorization)

SequentialScanBegin == Quiet /\ TriggeredScanBegin

SequentialSdkScanBegin(listed) == Quiet /\ TriggeredSdkScanBegin(listed)

SequentialWatchCall == Quiet /\ trigger.pc = "idle" /\ WatchCall

SequentialStopCallOk(kind, c) ==
    Quiet /\ trigger.pc = "idle" /\ StopCallOk(kind, c)

SequentialStopCallFail(kind, c) ==
    Quiet /\ trigger.pc = "idle" /\ StopCallFail(kind, c)

\* The watch lifecycle: the connection's watch started and stopped on
\* request, then a refresh scan, while time passes.
ScanNext ==
    \/ Tick
    \/ \E endpoint \in RefreshEndpoints, authorization \in Authorizations :
          SequentialRefreshRequest(endpoint, authorization)
    \/ RefreshDone
    \/ RefreshAnswered
    \/ SequentialScanBegin
    \/ \E listed \in SUBSET ConnectionIds : SequentialSdkScanBegin(listed)
    \/ ScanSkip
    \/ ScanCallOk
    \/ ScanCallFail
    \/ ScanWrite
    \/ ScanCallbackFail
    \/ ScanEnd
    \/ SequentialWatchCall
    \/ WatchWrite
    \/ \E kind \in {"app", "sdk"} : SequentialStopCallOk(kind, ConnectionId)
    \/ \E kind \in {"app", "sdk"} : SequentialStopCallFail(kind, ConnectionId)
    \/ StopWrite
    \/ StopAnswered

ScanSpec == ScanInit /\ [][ScanNext]_vars

\* The connection's row as an earlier registration left it; the other
\* connections have never been watched.
WatchInit ==
    /\ PipelineInit
    /\ LifecycleInit
    /\ conn \in {row \in StoredRows : row.isActive}
    /\ peers = [c \in OtherConnectionIds |-> NewConnection]
    /\ ProviderInit
    /\ ElsewhereInit

\* Starts, renewals and stops of the connection's watch, running
\* concurrently: a request of each kind may arrive while the others are
\* between their provider call and their write.
WatchNext ==
    \/ Tick
    \/ ScanBegin
    \/ SdkScanBegin({ConnectionId})
    \/ ScanSkip
    \/ ScanCallOk
    \/ ScanCallFail
    \/ ScanWrite
    \/ ScanCallbackFail
    \/ ScanEnd
    \/ WatchCall
    \/ WatchWrite
    \/ \E kind \in {"app", "sdk"} : StopCallOk(kind, ConnectionId)
    \/ \E kind \in {"app", "sdk"} : StopCallFail(kind, ConnectionId)
    \/ StopWrite
    \/ StopAnswered

WatchSpec == WatchInit /\ [][WatchNext]_vars

\* Requests that use createGmailAPIService, running concurrently, while the
\* stored access token ages.
TokenNext ==
    \/ Tick
    \/ \E r \in Clients : CreateService(r)
    \/ \E r \in Clients : RefreshOk(r)
    \/ \E r \in Clients : RefreshFail(r)
    \/ \E r \in Clients : PersistTokens(r)
    \/ \E r \in Clients : ProviderCall(r)
    \/ \E r \in Clients : ServiceReleased(r)

TokenSpec == Init /\ [][TokenNext]_vars

\* What reaches the subscriber of a POST: the body and the signature as
\* sent, with one byte altered, or (the signature) cut short.
ReceivedBodies ==
    IF request = NoRequest THEN {}
    ELSE {request.body} \cup AlterOne(request.body, Bytes)

ReceivedSignatures ==
    IF request = NoRequest THEN {}
    ELSE {request.signature} \cup AlterOne(request.signature, HexDigits)
            \cup {SubSeq(request.signature, 1, DigestLen - 1)}

\* POSTs of sendWebhook, each verified by its subscriber.
SignNext ==
    \/ \E w \in WebhookIds, type \in PayloadTypes, id \in Msgs :
          SendWebhook(w, [type |-> type, id |-> id])
    \/ \E payload \in ReceivedBodies, signature \in ReceivedSignatures,
          secret \in Secrets :
              Verify(payload, signature, secret)

SignSpec == Init /\ [][SignNext]_vars

\* Requests to the send endpoint, one after another, for the connection,
\* for one of the other connections and for a connection that does not
\* exist, while mail arrives and is notified.
SendNext ==
    \/ Arrive
    \/ \E p \in Passes, hint \in 0..mailboxHistoryId : SequentialBegin(p, hint)
    \/ \E p \in Passes : PassStep(p)
    \/ \E valid \in BOOLEAN,
          connectionId \in {ConnectionId, "c2", MissingConnectionId} :
              SendBegin(valid, connectionId)
    \/ SendEmailOk
    \/ SendEmailFail
    \/ SendInsert
    \/ SendInsertFail
    \/ SendAnswered

SendSpec == HandlerInit /\ [][SendNext]_vars

\* Invocations of the poller, which may overlap, while mail arrives and
\* notifications are published and redelivered.
PollNext ==
    \/ Arrive
    \/ \E emailAddress \in Addresses, historyId \in 0..mailboxHistoryId :
          Publish(emailAddress, historyId)
    \/ \E r \in Pollers, messages \in SUBSET subscription.unacked :
          Pull(r, messages)
    \/ \E r \in Pollers : PollLookup(r)
    \/ \E r \in Pollers : PollGetHistoryOk(r)
    \/ \E r \in Pollers : PollGetHistoryFail(r)
    \/ \E r \in Pollers : PollProcess(r)
    \/ \E r \in Pollers : PollProcessFail(r)
    \/ \E r \in Pollers : PollUpdate(r)
    \/ \E r \in Pollers : PollUpdateFail(r)
    \/ \E r \in Pollers : PollAck(r)
    \/ \E r \in Pollers : PollAckFail(r)
    \/ \E r \in Pollers : PollEnd(r)

PollSpec == Init /\ [][PollNext]_vars

\* Requests to the SDK's start-watch endpoint, one after another.
StartNext ==
    \/ \E address \in StartAddresses \cup {NoEmail} : StartRequest(address)
    \/ StartGetTokensOk
    \/ StartGetTokensFail
    \/ StartWatchOk
    \/ StartWatchFail
    \/ StartCallbackOk
    \/ StartCallbackFail
    \/ StartAnswered

StartSpec == Init /\ [][StartNext]_vars

\* Requests to the connection-creation endpoint, one after another, as
\* time passes.
CreateNext ==
    \/ Tick
    \/ \E valid \in BOOLEAN, googleAccount \in GoogleAccounts,
          address \in MailboxAddresses, start_watching \in BOOLEAN :
              CreateRequest(valid, googleAccount, address, start_watching)
    \/ CreateInsertFail
    \/ CreateWatchOk
    \/ CreateWatchFail
    \/ CreateAnswered

CreateSpec == Init /\ [][CreateNext]_vars

\* Calls of startWatching and stopWatching on one IMAP connection, which
\* may overlap.
ImapNext ==
    \/ \E k \in ImapCallers : ImapStartBegin(k)
    \/ \E k \in ImapCallers : ImapServiceOk(k)
    \/ \E k \in ImapCallers : ImapStartFail(k)
    \/ \E k \in ImapCallers : ImapWatchOk(k)
    \/ \E k \in ImapCallers : ImapStopBegin(k)
    \/ \E k \in ImapCallers : ImapStopDone(k)
    \/ \E k \in ImapCallers : ImapStopFail(k)

ImapSpec == Init /\ [][ImapNext]_vars

\* The application's own starts, renewals and stops of the connection's
\* watch, running concurrently.
AppWatchNext ==
    \/ Tick
    \/ ScanBegin
    \/ ScanSkip
    \/ ScanCallOk
    \/ ScanCallFail
    \/ ScanWrite
    \/ ScanEnd
    \/ WatchCall
    \/ WatchWrite
    \/ StopCallOk("app", ConnectionId)
    \/ StopCallFail("app", ConnectionId)
    \/ StopWrite
    \/ StopAnswered

AppWatchSpec == WatchInit /\ [][AppWatchNext]_vars

\* Calls of storeParsedEmail by passes that may run concurrently.
StoreNext ==
    \/ \E k \in Storers, messageId \in Msgs : StoreSelect(k, messageId)
    \/ \E k \in Storers : StoreWrite(k)
    \/ \E k \in Storers : StoreFail(k)

StoreSpec == Init /\ [][StoreNext]_vars

\* One RateLimiter, add calls and task completions in any order.
LimiterNext ==
    \/ \E maxConcurrent \in 0..MaxConcurrent, minDelayMs \in {0, 1} :
           NewRateLimiter(maxConcurrent, minDelayMs)
    \/ \E t \in Tasks : Add(t)
    \/ \E t \in Tasks, outcome \in {"resolved", "rejected"} :
           Settle(t, outcome)
    \/ DelayElapsed

LimiterSpec == Init /\ [][LimiterNext]_vars

(* ------------------------------ claims -------------------------------- *)

\* Inbound rows of the connection's email log for message m.
InboundRows(m) ==
    {r \in emailLog : /\ r.gmailConnectionId = ConnectionId
                      /\ r.messageId = m
                      /\ r.direction = "inbound"}

\* Whether the webhook table makes w a subscriber of the connection's
\* email.received events.
Subscribed(w) ==
    /\ webhook[w].gmailConnectionId = ConnectionId
    /\ webhook[w].isActive
    /\ "email.received" \in webhook[w].events

\* The positions of pass p's delta that are behind it.
Handled(p) == 1..Len(pass[p].handled)

\* Some request has resolved m: fetched it and either logged or skipped it.
Resolved(m) ==
    \E p \in Passes : \E i \in Handled(p) :
        pass[p].refs[i] = m /\ pass[p].handled[i] \in {"logged", "skipped"}

\* C1: when the requests are handled one after another (SeqSpec), the log
\* never holds two inbound rows for one message id, one payload exists per
\* row, and a message that some request resolved has exactly one row and
\* exactly one payload, however often it was notified.
C1_ExactlyOncePerMessage ==
    \A m \in Msgs :
        /\ Cardinality(InboundRows(m)) <= 1
        /\ Cardinality({e \in events : e[2] = m}) = Cardinality(InboundRows(m))
        /\ Resolved(m) => Cardinality(InboundRows(m)) = 1

\* C1 witness: a request has skipped a message that an earlier request
\* logged, and the log holds one row for it.
C1_Witness ==
    \E p \in Passes : \E i \in Handled(p) :
        /\ pass[p].pc = "done"
        /\ pass[p].handled[i] = "skipped"
        /\ Cardinality(InboundRows(pass[p].refs[i])) = 1
        /\ \E q \in Passes \ {p} : <<q, pass[p].refs[i]>> \in events

\* C2 (as claimed): a message is fanned out to subscribers by at most one
\* of the concurrently running passes.
C2_FanoutByAtMostOnePass ==
    \A m \in Msgs :
        Cardinality({k[2][1] : k \in {x \in DOMAIN posts : x[2][2] = m}}) <= 1

\* C3 (as claimed): in every reachable state the log holds at most one
\* inbound row per connection and provider message id.
C3_UniqueInboundRow ==
    \A m \in Msgs : Cardinality(InboundRows(m)) <= 1

\* C4 (as claimed): no write replaces the stored cursor by an older one.
C4_CursorNeverRegresses ==
    [][conn.gmailHistoryId # NoCursor =>
          conn'.gmailHistoryId >= conn.gmailHistoryId]_vars

\* C5: a pass writes the cursor only in its last step, when every reference
\* of its delta has been logged, skipped or has failed to fetch; no other
\* step of a pass, in particular its failing, changes the connection row.
C5_CursorWrittenAfterDelta ==
    [][\A p \in Passes :
          pass'[p] # pass[p] =>
              IF pass[p].pc = "update"
              THEN /\ Len(pass[p].handled) = Len(pass[p].refs)
                   /\ \A i \in Handled(p) :
                        pass[p].handled[i] \in {"logged", "skipped", "fetch_failed"}
              ELSE conn' = conn]_vars

\* C5 witness: a pass over a two-message delta has written the cursor, and
\* another pass has failed without writing it.
C5_Witness ==
    \E p, q \in Passes :
        /\ pass[p].pc = "done"
        /\ Len(pass[p].refs) = 2
        /\ Len(pass[p].handled) = 2
        /\ conn.gmailHistoryId = pass[p].historyId
        /\ pass[q].pc = "failed"

\* C6: the pass keeps the historyId of the provider's history response, and
\* its last step stores exactly that value as the connection's cursor.
C6_CursorEqualsDeltaCursor ==
    [][\A p \in Passes :
          /\ (pass[p].pc = "getHistory"
                /\ pass'[p].pc \notin {"getHistory", "failed"})
                => pass'[p].historyId = mailboxHistoryId
          /\ (pass[p].pc = "update" /\ pass'[p].pc = "done")
                => conn'.gmailHistoryId = pass[p].historyId]_vars

\* C6 witness: a completed pass whose delta held a logged and an
\* unfetchable message, with the stored cursor equal to the delta's cursor
\* and different from the cursor the pass started from.
C6_Witness ==
    \E p \in Passes :
        /\ pass[p].pc = "done"
        /\ pass[p].handled = <<"logged", "fetch_failed">>
        /\ conn.gmailHistoryId = pass[p].historyId
        /\ pass[p].historyId # pass[p].startHistoryId

\* C7: whatever the endpoints answer, a fan-out that has settled has
\* POSTed to every subscriber, a failure is only ever recorded while the
\* pass is inside the fan-out (the call has not thrown), and every message
\* the pass has logged has reached every subscriber.
C7_FanoutIsolation ==
    \A p \in Passes :
        /\ pass[p].failed # {} => pass[p].pc = "fanout"
        /\ (pass[p].pc = "fanout" /\ pass[p].pending = {}) =>
              \A w \in WebhookIds :
                  Subscribed(w) => PostCount(w, <<p, CurrentMsg(p)>>) >= 1
        /\ \A i \in Handled(p) :
              pass[p].handled[i] = "logged" =>
                  \A w \in WebhookIds :
                      Subscribed(w) => PostCount(w, <<p, pass[p].refs[i]>>) >= 1

\* C7 witness: the fan-out of a pass's second message has settled; the
\* delivery to w1 failed, w2 was POSTed all the same, and the first
\* message's fan-out is behind the pass.
C7_Witness ==
    \E p \in Passes :
        /\ pass[p].pc = "fanout"
        /\ pass[p].pending = {}
        /\ pass[p].failed = {"w1"}
        /\ pass[p].handled = <<"logged">>
        /\ PostCount("w2", <<p, CurrentMsg(p)>>) = 1

\* C8: a webhook is POSTed an event only if it is a subscriber, never more
\* than once, and once the event's fan-out is complete every subscriber has
\* been POSTed it exactly once.
C8_PostIffSubscribed ==
    /\ \A k \in DOMAIN posts :
          /\ posts[k] = 1
          /\ Subscribed(k[1])
          /\ k[2] \in events
    /\ \A p \in Passes : \A i \in Handled(p) :
          pass[p].handled[i] = "logged" =>
              \A w \in WebhookIds :
                  Subscribed(w) => PostCount(w, <<p, pass[p].refs[i]>>) = 1

\* C8 witness: an event's fan-out is complete; the two subscribers were
\* POSTed once, the inactive, the unsubscribed and the foreign webhook not.
C8_Witness ==
    \E p \in Passes : \E i \in Handled(p) :
        /\ pass[p].handled[i] = "logged"
        /\ PostCount("w1", <<p, pass[p].refs[i]>>) = 1
        /\ PostCount("w2", <<p, pass[p].refs[i]>>) = 1
        /\ PostCount("w3", <<p, pass[p].refs[i]>>) = 0
        /\ PostCount("w4", <<p, pass[p].refs[i]>>) = 0
        /\ PostCount("w5", <<p, pass[p].refs[i]>>) = 0

\* C9: a pass that skipped a message as already logged has added no row,
\* created no payload and sent no POST for it, and the row it found is
\* another request's; the skip does not end the pass: it writes the cursor
\* only with every reference handled, and a later reference it logged has
\* its row and its POSTs.
C9_SkipDoesNotBlockLater ==
    \A p \in Passes :
        /\ \A i \in Handled(p) :
              pass[p].handled[i] = "skipped" =>
                  LET m == pass[p].refs[i] IN
                  /\ \A r \in emailLog : r.id # <<p, m>>
                  /\ <<p, m>> \notin events
                  /\ \A w \in WebhookIds : PostCount(w, <<p, m>>) = 0
                  /\ ExistingRows(ConnectionId, m) # {}
        /\ pass[p].pc \in {"update", "done"} =>
              Len(pass[p].handled) = Len(pass[p].refs)
        /\ \A i, j \in Handled(p) :
              (i < j /\ pass[p].handled[i] = "skipped"
                     /\ pass[p].handled[j] = "logged") =>
                  /\ \E r \in emailLog : r.id = <<p, pass[p].refs[j]>>
                  /\ \A w \in WebhookIds :
                        Subscribed(w) => PostCount(w, <<p, pass[p].refs[j]>>) = 1

\* C9 witness: a completed pass skipped m1, which another pass had logged,
\* and logged m2.
C9_Witness ==
    \E p \in Passes :
        /\ pass[p].pc = "done"
        /\ pass[p].refs = <<1, 2>>
        /\ pass[p].handled = <<"skipped", "logged">>
        /\ \E r \in emailLog : r.id = <<p, 2>>
        /\ PostCount("w1", <<p, 2>>) = 1

\* C10: a pass holds its delta in the provider's order (ascending history
\* record), works on one reference at a time, has every POST of an earlier
\* logged message behind it, and has neither a row nor a POST, in flight or
\* sent, for any later reference.
C10_DeltaOrder ==
    \A p \in Passes :
        LET cur == Len(pass[p].handled) + 1 IN
        /\ \A i, j \in 1..Len(pass[p].refs) :
              i < j => pass[p].refs[i] < pass[p].refs[j]
        /\ \A x \in pass[p].pending :
              /\ pass[p].pc \in {"fanout", "directFanout"}
              /\ cur <= Len(pass[p].refs)
              /\ x[2] = pass[p].refs[cur]
        /\ \A i \in 1..Len(pass[p].refs) :
              /\ (i < cur /\ \E r \in emailLog : r.id = <<p, pass[p].refs[i]>>)
                    => \A w \in WebhookIds :
                          Subscribed(w) => PostCount(w, <<p, pass[p].refs[i]>>) = 1
              /\ i > cur =>
                    /\ \A r \in emailLog : r.id # <<p, pass[p].refs[i]>>
                    /\ \A w \in WebhookIds : PostCount(w, <<p, pass[p].refs[i]>>) = 0

\* C10 witness: a pass is in the fan-out of its second message with a POST
\* still in flight; the first message's POSTs have all been attempted.
C10_Witness ==
    \E p \in Passes :
        /\ pass[p].pc = "fanout"
        /\ pass[p].handled = <<"logged">>
        /\ pass[p].pending # {}
        /\ PostCount("w1", <<p, pass[p].refs[1]>>) = 1
        /\ PostCount("w2", <<p, pass[p].refs[1]>>) = 1

\* C11: a message whose fetch failed has no row, no payload and no POST from
\* that pass, and holds one position of the pass's delta (it is not tried
\* again); the failure does not fail the pass, which reaches its cursor
\* update only with every reference handled, and a later reference it
\* logged has its row and its POSTs.
C11_FetchFailureSkipsOneMessage ==
    \A p \in Passes :
        /\ Len(pass[p].handled) <= Len(pass[p].refs)
        /\ \A i \in Handled(p) :
              pass[p].handled[i] = "fetch_failed" =>
                  LET m == pass[p].refs[i] IN
                  /\ pass[p].pc # "failed"
                  /\ \A r \in emailLog : r.id # <<p, m>>
                  /\ <<p, m>> \notin events
                  /\ \A w \in WebhookIds : PostCount(w, <<p, m>>) = 0
                  /\ \A j \in 1..Len(pass[p].refs) :
                        j # i => pass[p].refs[j] # m
                  /\ pass[p].pc \in {"update", "done"} =>
                        Len(pass[p].handled) = Len(pass[p].refs)
        /\ \A i, j \in Handled(p) :
              (i < j /\ pass[p].handled[i] = "fetch_failed"
                     /\ pass[p].handled[j] = "logged") =>
                  /\ \E r \in emailLog : r.id = <<p, pass[p].refs[j]>>
                  /\ \A w \in WebhookIds :
                        Subscribed(w) => PostCount(w, <<p, pass[p].refs[j]>>) = 1

\* C11 witness: a completed pass could not fetch m1 and logged m2; nothing
\* in the log is m1's.
C11_Witness ==
    \E p \in Passes :
        /\ pass[p].pc = "done"
        /\ pass[p].refs = <<1, 2>>
        /\ pass[p].handled = <<"fetch_failed", "logged">>
        /\ InboundRows(1) = {}
        /\ \E r \in emailLog : r.id = <<p, 2>>
        /\ PostCount("w1", <<p, 2>>) = 1

\* C12 (as claimed): a pass whose delta fetch the provider rejected because
\* the cursor is too old or unknown does not fail the notification; it goes
\* on from the notification's hint.
C12_FallsBackToHint ==
    \A p \in Passes : pass[p].invalidCursor => pass[p].pc # "failed"

\* C13 (as claimed): a notification for an address without a connection, or
\* with a deactivated one, is discarded: the request never reaches the
\* provider, writes nothing, and is answered with a success status.
C13_DiscardsUnknownOrInactive ==
    \A p \in Passes :
        LET toDiscard ==
                \/ pass[p].pc = "notFound"
                \/ ~conn.isActive /\ pass[p].pc \notin {"idle", "invalid"}
        IN  toDiscard =>
              /\ pass[p].pc \notin {"getHistory", "getMessage", "insert",
                                    "fanout", "update", "failed"}
              /\ pass[p].historyId = NoCursor
              /\ emailLog = {} /\ events = {} /\ posts = <<>>
              /\ conn.gmailHistoryId = NoCursor
              /\ ResponseStatus(pass[p].pc) # 0 =>
                    ResponseStatus(pass[p].pc) \in 200..299

\* C14 (as claimed): a request that ended in an error of the critical path
\* (credentials, delta fetch) or in a throwing notification callback is
\* answered with a success status.
C14_ErrorAnsweredWithSuccess ==
    /\ \A p \in Passes :
          pass[p].pc = "failed" => ResponseStatus(pass[p].pc) \in 200..299
    /\ reply.called => reply.status \in 200..299

\* C15 (as claimed): every notification endpoint answers a body without
\* message.data with 400 and an {error} body, and does not invoke the
\* notification callback.
C15_MissingDataAnswered400 ==
    /\ \A p \in Passes :
          pass[p].pc = "invalid" => ResponseStatus(pass[p].pc) = 400
    /\ reply.envelope = "no_data" =>
          /\ reply.status = 400
          /\ reply.body = "error"
          /\ ~reply.called

\* C16: the request computes its start cursor as the stored cursor when the
\* connection row has one and as the notification's hint only when it has
\* none, and the delta it works on is the one history.list returns for
\* that start cursor.
C16_EffectiveCursor ==
    [][\A p \in Passes :
          /\ (pass[p].pc = "idle" /\ pass'[p].pc = "getHistory") =>
                pass'[p].startHistoryId =
                    IF conn.gmailHistoryId # NoCursor
                    THEN conn.gmailHistoryId ELSE pass'[p].hint
          /\ (pass[p].pc = "getHistory"
                /\ pass'[p].pc \notin {"getHistory", "failed"}) =>
                /\ pass'[p].startHistoryId = pass[p].startHistoryId
                /\ pass'[p].refs = getHistory(pass[p].startHistoryId).history]_vars

\* C16 witness: one request started from the hint because no cursor was
\* stored; a later one started from the stored cursor although its
\* notification carried another hint.
C16_Witness ==
    \E p, q \in Passes :
        /\ pass[p].pc = "done"
        /\ pass[p].startHistoryId = pass[p].hint
        /\ pass[p].historyId = 1
        /\ pass[q].pc = "done"
        /\ pass[q].startHistoryId = 1
        /\ pass[q].hint # 1
        /\ pass[q].refs # <<>>

\* The gmail_connection row of c after the step.
RowNext(c) == IF c = ConnectionId THEN conn' ELSE peers'[c]

\* C17: refreshGmailAPIWatches reads the active rows; at each of them it
\* renews the watch if and only if the row it read has an expiration and
\* that expiration is less than 24 hours after the current time; the scan
\* changes no row but the one it is renewing, so a row without expiration,
\* one that is not due and one that is not active are left as they are.
C17_RenewIffDue ==
    [][/\ (scan.pc = "idle" /\ scan'.pc = "loop" /\ scan'.kind = "cron") =>
             /\ {scan'.connections[i].id : i \in 1..Len(scan'.connections)}
                    = {c \in ConnectionIds : Row(c).isActive}
             /\ \A i \in 1..Len(scan'.connections) :
                   scan'.connections[i].gmailWatchExpiration
                       = Row(scan'.connections[i].id).gmailWatchExpiration
       /\ (scan.kind = "cron" /\ scan.pc = "loop" /\ scan' # scan
              /\ scan.done < Len(scan.connections)) =>
             LET e == ScanCurrent.gmailWatchExpiration
                 renewed == \/ scan'.pc = "write"
                            \/ Len(scan'.results) = Len(scan.results) + 1
             IN  renewed <=> (e # NoExpiration /\ e - now < RenewalThreshold)
       /\ (scan.kind = "cron" /\ scan' # scan) =>
             \A c \in ConnectionIds :
                 RowNext(c) # Row(c) =>
                     /\ scan.pc = "write"
                     /\ c = ScanCurrent.id
                     /\ ScanCurrent.gmailWatchExpiration # NoExpiration
                     /\ ScanCurrent.gmailWatchExpiration - now
                            < RenewalThreshold]_vars

\* C17 witness: a scan run at hour 0 over three active rows has renewed the
\* watch that expired in 23 hours and left alone the one that expires in 25
\* hours and the row without expiration.
C17_Witness ==
    /\ scan.pc = "done"
    /\ scan.kind = "cron"
    /\ now = 0
    /\ Len(scan.connections) = 3
    /\ scan.connections[1].gmailWatchExpiration = RenewalThreshold - 1
    /\ scan.results = <<[id |-> "c1", success |-> TRUE]>>
    /\ conn.gmailWatchExpiration = WatchLifetime
    /\ peers["c2"].gmailWatchExpiration = RenewalThreshold + 1
    /\ peers["c3"].gmailWatchExpiration = NoExpiration

\* C18: a renewal that fails is recorded and the loop takes the next
\* connection; the scan attempts every connection it is to renew, each at
\* most once, ends only at the end of its list, and the counts it derives
\* from its results add up to the number of attempts.
C18_FailureDoesNotStopScan ==
    [][/\ (scan.pc = "loop" /\ scan' # scan /\ scan'.pc # "done"
              /\ scan.done < Len(scan.connections) /\ ShouldRenew) =>
             \/ scan'.pc = "write"
             \/ Len(scan'.results) = Len(scan.results) + 1
       /\ (scan.pc \in {"loop", "write"} /\ scan'.results # scan.results) =>
             /\ Len(scan'.results) = Len(scan.results) + 1
             /\ SubSeq(scan'.results, 1, Len(scan.results)) = scan.results
             /\ scan'.results[Len(scan'.results)].id = ScanCurrent.id
             /\ \A i \in 1..Len(scan.results) :
                   scan.results[i].id # ScanCurrent.id
             /\ scan'.done = scan.done + 1
             /\ scan'.pc = "loop"
       /\ (scan.pc # "done" /\ scan'.pc = "done") =>
             /\ scan.pc = "loop"
             /\ scan.done = Len(scan.connections)
             /\ RefreshedCount(scan'.results) + FailedCount(scan'.results)
                    = Len(scan'.results)]_vars

\* C18 witness: a finished scan whose first renewal failed and whose second
\* and third succeeded: one failure and two renewals are counted.
C18_Witness ==
    /\ scan.pc = "done"
    /\ Len(scan.results) = 3
    /\ ~scan.results[1].success
    /\ scan.results[2].success
    /\ scan.results[3].success
    /\ RefreshedCount(scan.results) = 2
    /\ FailedCount(scan.results) = 1

C20_StopIsBestEffort ==
    /\ stop.pc # "failed"
    /\ stop.pc = "stopped" =>
          IF stop.kind = "app"
          THEN Row(stop.id).gmailWatchExpiration = NoExpiration
          ELSE stop.notified

C22_RefreshPersistedBeforeCall ==
    [][\A r \in Clients :
          (client'[r].calls > client[r].calls
             /\ TokenExpired(credentials.gmailTokenExpiry))
              => client[r].persisted]_vars

\* C23 (as claimed): at most one token refresh is in flight for the
\* connection at any time.
C23_SingleFlightRefresh ==
    Cardinality({r \in Clients : client[r].pc = "refresh"}) <= 1

\* C24: a request to a watch-refresh endpoint whose Authorization header is
\* anything but "Bearer " followed by the shared secret is answered 401 in
\* the step that reads the header, and that step changes nothing else; a
\* scan starts, and takes each of its steps (provider call, row update),
\* only for a request whose header matched.
C24_MismatchGets401 ==
    [][/\ (trigger.pc = "idle" /\ trigger'.pc # "idle") =>
            IF trigger'.authorization = "Bearer s3cret"
            THEN trigger'.pc = "call"
            ELSE /\ trigger'.pc = "answered"
                 /\ trigger'.status = 401
                 /\ UNCHANGED <<conn, peers, scan, watch, stop, registered,
                                credentials, emailLog>>
       /\ scan' # scan =>
            /\ trigger.pc = "call"
            /\ trigger.authorization = "Bearer s3cret"]_vars

\* C24 witness: a request whose header has one character more than the
\* expected one has been answered 401 while the connection's watch is due;
\* no scan has started and the provider and the row are as they were.
C24_Witness ==
    /\ trigger.pc = "answered"
    /\ trigger.status = 401
    /\ trigger.authorization = "Bearer s3cret1"
    /\ conn.isActive
    /\ Due(conn.gmailWatchExpiration)
    /\ scan = IdleScan
    /\ registered = Registered(conn.gmailWatchExpiration)

\* C25: the POST sendWebhook sends carries, as X-Webhook-Signature, the hex
\* digest of the body it sends keyed with the secret of the webhook row it is
\* sent for, and that row's id as X-Webhook-ID.
C25_SignatureOverSentBody ==
    request # NoRequest =>
        /\ webhook[request.to].secret \in Secrets
        /\ request.signature =
              Hex(Hmac(webhook[request.to].secret, request.body))
        /\ Len(request.signature) = DigestLen
        /\ request.webhookId = request.to

\* C25 witness: a POST for w2, whose secret is not the one of w1, has been
\* sent for an email.sent payload.
C25_Witness ==
    /\ request.to = "w2"
    /\ request.body = Stringify([type |-> "email.sent", id |-> 1])
    /\ request.signature # createWebhookSignature(request.body, "k1")

\* C26: verifyWebhookSignature answers true for the signature that
\* createWebhookSignature gives for the same payload and secret, and never
\* for another one: under the webhook's secret, the sent signature with a
\* body that differs from the sent one in one byte, and the sent body with a
\* signature that differs from the sent one in one byte, are answered false.
C26_VerifyRoundTrip ==
    verdict # NoVerdict =>
        /\ verdict.signature =
              createWebhookSignature(verdict.payload, verdict.secret)
                  => verdict.result = "true"
        /\ verdict.result = "true" =>
              verdict.signature = Hex(Hmac(verdict.secret, verdict.payload))
        /\ (verdict.secret = webhook[request.to].secret
              /\ \/ /\ verdict.payload \in AlterOne(request.body, Bytes)
                    /\ verdict.signature = request.signature
                 \/ /\ verdict.payload = request.body
                    /\ verdict.signature
                          \in AlterOne(request.signature, HexDigits))
              => verdict.result = "false"

\* C26 witness: under the webhook's secret, the sent signature has been
\* refused for a body with one byte altered.
C26_Witness ==
    /\ verdict # NoVerdict
    /\ verdict.secret = webhook[request.to].secret
    /\ verdict.payload \in AlterOne(request.body, Bytes)
    /\ verdict.signature = request.signature
    /\ verdict.result = "false"

\* C27 (as claimed): every response of a watch-refresh endpoint with a 4xx
\* or 5xx status has a JSON body of the form {error: string}.
C27_ErrorResponsesAreJson ==
    trigger.status >= 400 => trigger.body = "error"

\* C28: an outbound row exists only for a message the provider accepted,
\* and a response with the message's id only once the provider accepted it
\* and the row is written; a step in which the provider call fails answers
\* 500 with the error and leaves the log and the provider's outbox as they
\* were; a request naming a missing or an inactive connection is answered
\* 404 or 400 without a provider call.
C28_RowOnlyIfAccepted ==
    [][ /\ \A r \in OutboundRows' :
              /\ r.messageId \in {SentId(n) : n \in 1..outbox'}
              /\ r.status = "sent"
        /\ (send'.pc = "answered" /\ send'.status = 200) =>
              /\ send'.body = "id"
              /\ send'.id = SentId(outbox')
              /\ \E r \in OutboundRows' :
                    /\ r.messageId = send'.id
                    /\ r.gmailConnectionId = send'.connection_id
        /\ (send.pc = "sendEmail" /\ send'.pc = "answered") =>
              /\ send'.status = 500
              /\ send'.body = "error"
              /\ emailLog' = emailLog
              /\ outbox' = outbox
        /\ (send.pc = "idle" /\ send'.pc = "answered") =>
              /\ send'.status \in {400, 404}
              /\ ~send'.called
              /\ emailLog' = emailLog
              /\ outbox' = outbox
        /\ (send.pc = "idle" /\ send'.pc = "sendEmail") =>
              /\ send'.connection_id \in ConnectionIds
              /\ Row(send'.connection_id).isActive
    ]_vars

\* C28 witness: after one message was sent and logged, a second request's
\* provider call has failed; it is answered 500 and the log holds the one
\* outbound row.
C28_Witness ==
    /\ send.pc = "answered"
    /\ send.status = 500
    /\ send.called
    /\ send.id = 0
    /\ outbox = 1
    /\ Cardinality(OutboundRows) = 1

\* C29 (as claimed): a reference whose message id is already logged is
\* skipped without a getMessage call for it by the request that skips it.
C29_LookupPrecedesFetch ==
    \A p \in Passes :
        \A i \in 1..Len(pass[p].handled) :
            pass[p].handled[i] = "skipped" =>
                pass[p].refs[i] \notin pass[p].fetched

\* C30: a step in which a renewal of refreshGmailAPIWatches fails leaves
\* every connection row as it was (cursor and watch expiration included); a
\* watch that is due stays due as time passes; and when the next scan
\* begins, every connection whose renewal failed in the scan before, whose
\* row is still active and still holds the expiration that scan read, is
\* selected again and is due, so that scan renews it again rather than
\* passing it.
C30_FailedRenewalSelectedAgain ==
    [][ /\ ( /\ scan.pc = "loop"
             /\ scan.kind = "cron"
             /\ FailedRenewals' # FailedRenewals ) =>
               /\ conn' = conn
               /\ peers' = peers
               /\ Due(ScanCurrent.gmailWatchExpiration)
        /\ \A c \in ConnectionIds :
              ( /\ Due(Row(c).gmailWatchExpiration)
                /\ Row(c)' = Row(c) ) => Due(Row(c).gmailWatchExpiration)'
        /\ ( /\ scan.pc = "done"
             /\ scan.kind = "cron"
             /\ scan'.pc = "loop"
             /\ scan'.kind = "cron" ) =>
               \A i \in FailedRenewals :
                   LET c    == scan.results[i].id
                       read == CHOOSE r \in Selected : r.id = c
                   IN  ( /\ Row(c).isActive
                         /\ Row(c).gmailWatchExpiration
                                = read.gmailWatchExpiration ) =>
                           /\ read \in Selected'
                           /\ Due(read.gmailWatchExpiration)
    ]_vars

\* C30 witness: a scan is over in which the renewal of the connection's
\* watch failed; the row is active and holds the expiration the scan read,
\* which is due.
C30_Witness ==
    /\ scan.pc = "done"
    /\ scan.kind = "cron"
    /\ \E i \in FailedRenewals : scan.results[i].id = ConnectionId
    /\ conn.isActive
    /\ \E r \in Selected :
          /\ r.id = ConnectionId
          /\ r.gmailWatchExpiration = conn.gmailWatchExpiration
          /\ Due(r.gmailWatchExpiration)

\* C31 (as claimed): in the poller, no message has a second email-log row
\* and no second webhook payload, however often its notification is pulled.
C31_PollerLogsOnce ==
    \A m \in Msgs :
        /\ Cardinality({row \in emailLog : row.messageId = m}) <= 1
        /\ Cardinality({e \in events : e[2] = m}) <= 1

\* C32: in the poller, a step that acknowledges a pulled message is taken
\* either by an invocation whose pass for that message has written the new
\* cursor, or for a message whose address has no connection; a pass is at
\* its acknowledgement only once the row holds its cursor; and a step in
\* which a pass throws leaves the message unacknowledged and moves the
\* invocation on to the next message of the same batch.
C32_AckAfterCursor ==
    [][ /\ \A n \in subscription.unacked \ subscription'.unacked :
              \E r \in Pollers :
                  /\ poll'[r] # poll[r]
                  /\ poll[r].pc \in {"next", "ack"}
                  /\ PollCurrent(r) = n
                  /\ \/ poll[r].pc = "ack" /\ poll[r].persisted
                     \/ poll[r].pc = "next"
                          /\ ~ConnectionFound(n.emailAddress)
        /\ \A r \in Pollers :
              /\ (poll[r].pc # "ack" /\ poll'[r].pc = "ack") =>
                    /\ poll[r].pc = "update"
                    /\ conn'.gmailHistoryId = poll[r].historyId
              /\ (poll[r].pc \in {"getHistory", "update"}
                    /\ poll'[r].pc = "next") =>
                    /\ subscription'.unacked = subscription.unacked
                    /\ poll'[r].batch = poll[r].batch
                    /\ poll'[r].at = poll[r].at + 1
    ]_vars

\* C32 witness: the pass for the first message of a batch threw and the
\* message is still unacknowledged; the invocation has gone on to the
\* second message, written its cursor and is about to acknowledge it.
C32_Witness ==
    \E r \in Pollers :
        /\ poll[r].at = 2
        /\ poll[r].pc = "ack"
        /\ poll[r].persisted
        /\ poll[r].batch[1] \in subscription.unacked
        /\ ConnectionFound(poll[r].batch[1].emailAddress)

\* C33: handleStartWatch calls getTokens, users.watch and onWatchStarted
\* in that order; onWatchStarted is called only after the request's
\* users.watch call succeeded, so it has completed for no address without a
\* watch; and the response is a success only if the callback completed.
C33_StartWatchOrder ==
    [][ /\ \E n \in 0..3 :
              start'.calls = SubSeq(<<"getTokens", "users.watch",
                                      "onWatchStarted">>, 1, n)
        /\ start'.pc = "onWatchStarted" =>
              /\ start.pc = "startWatch"
              /\ started'[start'.email].watched
        /\ \A a \in StartAddresses :
              started'[a].notified => started'[a].watched
        /\ (start'.pc = "answered" /\ start'.status = 200) =>
              /\ start.pc = "onWatchStarted"
              /\ Len(start'.calls) = 3
              /\ started'[start'.email].notified
        /\ (start.pc = "startWatch" /\ ~started'[start.email].watched) =>
              /\ start'.pc = "answered"
              /\ start'.status = 500
              /\ started' = started
    ]_vars

\* C33 witness: a request's users.watch call has failed for an address
\* that has no watch; it is answered 500 and the callback was not called,
\* after an earlier request for another address had succeeded.
C33_Witness ==
    /\ start.pc = "answered"
    /\ start.status = 500
    /\ start.calls = <<"getTokens", "users.watch">>
    /\ ~started[start.email].watched
    /\ \E a \in StartAddresses : started[a].notified

\* C34: a creation request with start_watching set whose startWatching
\* fails is answered 201, and its row is stored, active and without a watch
\* expiration.
C34_CreatedDespiteWatchFailure ==
    (create.pc = "answered" /\ create.watchFailed) =>
        /\ create.status = 201
        /\ create.id \in 1..Len(created)
        /\ created[create.id].isActive
        /\ created[create.id].gmailWatchExpiration = NoExpiration

\* C34 witness: the second creation request's watch could not be started;
\* the first one's could.
C34_Witness ==
    /\ create.pc = "answered"
    /\ create.watchFailed
    /\ create.id = 2
    /\ created[1].gmailWatchExpiration # NoExpiration

\* C35 (as claimed): after any sequence of creation requests, at most one
\* connection row has a given mailbox address.
C35_OneConnectionPerAddress ==
    \A address \in MailboxAddresses :
        Cardinality(RowsByEmail(address)) <= 1

\* C36 (as claimed): at most one IMAP watcher of the connection runs at a
\* time, and a watcher that runs is the one activeWatchers records.
C36_OneWatcherRecorded ==
    /\ Cardinality(Running) <= 1
    /\ \A w \in Running : activeWatchers = w

\* C37 (as claimed): a connection that is being watched has a watch
\* expiration, so the scan reconsiders it: whenever the provider holds a
\* watch on an active connection's mailbox that has not expired, and no
\* start, renewal or stop is in progress, the row's expiration is non-null.
C37_WatchedHasExpiration ==
    ( /\ watch.pc = "idle"
      /\ stop.pc = "idle"
      /\ scan.pc \in {"idle", "done"}
      /\ conn.isActive
      /\ Outstanding # {} ) =>
        conn.gmailWatchExpiration # NoExpiration

\* C38 (as claimed): verifyWebhookSignature answers false, and does not
\* throw, for every signature that is not the expected one, whatever its
\* length.
C38_MismatchAnswersFalse ==
    ( /\ verdict # NoVerdict
      /\ verdict.signature #
            createWebhookSignature(verdict.payload, verdict.secret) ) =>
        verdict.result = "false"

\* C39: parsed_emails never holds two rows with the same message id, also
\* when calls of storeParsedEmail overlap; and a call whose select found
\* the message's row rewrites that row, keeping its id, and adds none.
C39_OneParsedRowPerMessage ==
    [][ /\ \A m \in Msgs : Cardinality(ParsedRows(m)') <= 1
        /\ \A k \in Storers :
              ( /\ storing[k].pc = "write"
                /\ storing[k].existing # NoRow
                /\ storing'[k].pc = "idle"
                /\ parsedEmails' # parsedEmails ) =>
                  /\ {row.id : row \in parsedEmails'}
                        = {row.id : row \in parsedEmails}
                  /\ \A row \in ParsedRows(storing[k].messageId)' :
                        /\ row.id = storing[k].existing
                        /\ row.writtenBy = storing[k].call
    ]_vars

\* C39 witness: two calls for the same message overlapped and both found no
\* row; one has inserted its row and the other is about to insert.
C39_Witness ==
    \E k \in Storers :
        /\ storing[k].pc = "write"
        /\ storing[k].existing = NoRow
        /\ ParsedRows(storing[k].messageId) # {}

\* C40: at no time are more than maxConcurrent tasks of a RateLimiter
\* running, whatever the order of add calls, completions and delays; the
\* running count is the number of running tasks.
C40_AtMostMaxConcurrent ==
    /\ Cardinality(RunningTasks) <= limiter.maxConcurrent
    /\ limiter.running = Cardinality(RunningTasks)

\* C40 witness: the limiter is full and holds a task back in its queue.
C40_Witness ==
    /\ limiter.made
    /\ limiter.maxConcurrent > 0
    /\ Cardinality(RunningTasks) = limiter.maxConcurrent
    /\ Len(limiter.queue) > 0

====
